---- MODULE Spec2Model ----
(***************************************************************************)
(* Dispatch core of claif: ClaifClient (src/src/claif/client.py) on top of *)
(* the retrying invoker BaseProvider.query (src/src/claif/providers/       *)
(* base.py).  A state is the provider registry of one client, the install  *)
(* hooks' call counts and the position of every running call.  A step is   *)
(* what runs between two suspension points of the cooperative scheduler.   *)
(***************************************************************************)
EXTENDS Integers, Sequences, FiniteSets, TLC

(* ---------------- bounds of the exploration ---------------- *)
\* options.retry_count ranges over -1 .. MaxRetry
MaxRetry == 2
\* a raw provider call yields at most MaxMsgs messages
MaxMsgs == 1
\* calls made on one client, one after the other
MaxCalls == 1
\* calls made on one client where two tasks share it
MaxShared == 2
\* messages of a raw call where the stream of one call is followed
MaxStream == 2
\* content blocks in the list a Message is constructed with
MaxBlocks == 2
\* times __post_init__ runs on one Message
MaxPostInit == 2
MaxDelay == 15
MaxAttempt == 6

(* ---------------- common/types.py ---------------- *)
None == "None"
CLAUDE == "claude"
GEMINI == "gemini"
CODEX == "codex"
Provider == {CLAUDE, GEMINI, CODEX}

\* ClaifOptions: the fields the dispatch core reads (provider, retry_count,
\* no_retry) and three of those it hands on unread, which have their
\* default values unless a specification says otherwise
DefaultRetryCount == 3
ClaifOptions ==
    [provider : Provider \cup {None}, retry_count : (0 - 1)..MaxRetry, no_retry : BOOLEAN,
     temperature : {None}, max_tokens : {None}, verbose : {FALSE}]

(* ---------------- text of errors ---------------- *)
\* A text is a sequence of characters.  Chars maps the string literals of
\* the source to their characters.
Chars ==
    [s \in {"claude", "gemini", "codex", "Claude", "Gemini", "Codex", "all", ": ", "command not found", "Permission Denied", "API error", "Connection timeout", "No response received from provider after successful query execution.", "Unknown provider: ", "Provider.CLAUDE", "Provider.GEMINI", "Provider.CODEX", " CLI not found and auto-install failed: ", " CLI not found and no auto-install available.", "Unknown auto-installation error.", "Install failed", "All providers failed after retry attempts", "", "claude not found", "gemini not found", "codex not found", "No such file or directory", "permission denied", "is not recognized as an internal or external command", "executable not found", "Cannot find gemini", "FileNotFoundError", "COMMAND NOT FOUND", "bash: codex: command not found", "Invalid input", "Rate limit exceeded", "not  found", "command found", "no such file or directory", "cannot find", "not found", "filenotfounderror"} |->
       CASE s = "claude" -> <<"c", "l", "a", "u", "d", "e">>
         [] s = "gemini" -> <<"g", "e", "m", "i", "n", "i">>
         [] s = "codex" -> <<"c", "o", "d", "e", "x">>
         [] s = "Claude" -> <<"C", "l", "a", "u", "d", "e">>
         [] s = "Gemini" -> <<"G", "e", "m", "i", "n", "i">>
         [] s = "Codex" -> <<"C", "o", "d", "e", "x">>
         [] s = "all" -> <<"a", "l", "l">>
         [] s = ": " -> <<":", " ">>
         [] s = "command not found" -> <<"c", "o", "m", "m", "a", "n", "d", " ", "n", "o", "t", " ", "f", "o", "u", "n", "d">>
         [] s = "Permission Denied" -> <<"P", "e", "r", "m", "i", "s", "s", "i", "o", "n", " ", "D", "e", "n", "i", "e", "d">>
         [] s = "API error" -> <<"A", "P", "I", " ", "e", "r", "r", "o", "r">>
         [] s = "Connection timeout" -> <<"C", "o", "n", "n", "e", "c", "t", "i", "o", "n", " ", "t", "i", "m", "e", "o", "u", "t">>
         [] s = "No response received from provider after successful query execution." -> <<"N", "o", " ", "r", "e", "s", "p", "o", "n", "s", "e", " ", "r", "e", "c", "e", "i", "v", "e", "d", " ", "f", "r", "o", "m", " ", "p", "r", "o", "v", "i", "d", "e", "r", " ", "a", "f", "t", "e", "r", " ", "s", "u", "c", "c", "e", "s", "s", "f", "u", "l", " ", "q", "u", "e", "r", "y", " ", "e", "x", "e", "c", "u", "t", "i", "o", "n", ".">>
         [] s = "Unknown provider: " -> <<"U", "n", "k", "n", "o", "w", "n", " ", "p", "r", "o", "v", "i", "d", "e", "r", ":", " ">>
         [] s = "Provider.CLAUDE" -> <<"P", "r", "o", "v", "i", "d", "e", "r", ".", "C", "L", "A", "U", "D", "E">>
         [] s = "Provider.GEMINI" -> <<"P", "r", "o", "v", "i", "d", "e", "r", ".", "G", "E", "M", "I", "N", "I">>
         [] s = "Provider.CODEX" -> <<"P", "r", "o", "v", "i", "d", "e", "r", ".", "C", "O", "D", "E", "X">>
         [] s = " CLI not found and auto-install failed: " -> <<" ", "C", "L", "I", " ", "n", "o", "t", " ", "f", "o", "u", "n", "d", " ", "a", "n", "d", " ", "a", "u", "t", "o", "-", "i", "n", "s", "t", "a", "l", "l", " ", "f", "a", "i", "l", "e", "d", ":", " ">>
         [] s = " CLI not found and no auto-install available." -> <<" ", "C", "L", "I", " ", "n", "o", "t", " ", "f", "o", "u", "n", "d", " ", "a", "n", "d", " ", "n", "o", " ", "a", "u", "t", "o", "-", "i", "n", "s", "t", "a", "l", "l", " ", "a", "v", "a", "i", "l", "a", "b", "l", "e", ".">>
         [] s = "Unknown auto-installation error." -> <<"U", "n", "k", "n", "o", "w", "n", " ", "a", "u", "t", "o", "-", "i", "n", "s", "t", "a", "l", "l", "a", "t", "i", "o", "n", " ", "e", "r", "r", "o", "r", ".">>
         [] s = "Install failed" -> <<"I", "n", "s", "t", "a", "l", "l", " ", "f", "a", "i", "l", "e", "d">>
         [] s = "All providers failed after retry attempts" -> <<"A", "l", "l", " ", "p", "r", "o", "v", "i", "d", "e", "r", "s", " ", "f", "a", "i", "l", "e", "d", " ", "a", "f", "t", "e", "r", " ", "r", "e", "t", "r", "y", " ", "a", "t", "t", "e", "m", "p", "t", "s">>
         [] s = "" -> <<>>
         [] s = "claude not found" -> <<"c", "l", "a", "u", "d", "e", " ", "n", "o", "t", " ", "f", "o", "u", "n", "d">>
         [] s = "gemini not found" -> <<"g", "e", "m", "i", "n", "i", " ", "n", "o", "t", " ", "f", "o", "u", "n", "d">>
         [] s = "codex not found" -> <<"c", "o", "d", "e", "x", " ", "n", "o", "t", " ", "f", "o", "u", "n", "d">>
         [] s = "No such file or directory" -> <<"N", "o", " ", "s", "u", "c", "h", " ", "f", "i", "l", "e", " ", "o", "r", " ", "d", "i", "r", "e", "c", "t", "o", "r", "y">>
         [] s = "permission denied" -> <<"p", "e", "r", "m", "i", "s", "s", "i", "o", "n", " ", "d", "e", "n", "i", "e", "d">>
         [] s = "is not recognized as an internal or external command" -> <<"i", "s", " ", "n", "o", "t", " ", "r", "e", "c", "o", "g", "n", "i", "z", "e", "d", " ", "a", "s", " ", "a", "n", " ", "i", "n", "t", "e", "r", "n", "a", "l", " ", "o", "r", " ", "e", "x", "t", "e", "r", "n", "a", "l", " ", "c", "o", "m", "m", "a", "n", "d">>
         [] s = "executable not found" -> <<"e", "x", "e", "c", "u", "t", "a", "b", "l", "e", " ", "n", "o", "t", " ", "f", "o", "u", "n", "d">>
         [] s = "Cannot find gemini" -> <<"C", "a", "n", "n", "o", "t", " ", "f", "i", "n", "d", " ", "g", "e", "m", "i", "n", "i">>
         [] s = "FileNotFoundError" -> <<"F", "i", "l", "e", "N", "o", "t", "F", "o", "u", "n", "d", "E", "r", "r", "o", "r">>
         [] s = "COMMAND NOT FOUND" -> <<"C", "O", "M", "M", "A", "N", "D", " ", "N", "O", "T", " ", "F", "O", "U", "N", "D">>
         [] s = "bash: codex: command not found" -> <<"b", "a", "s", "h", ":", " ", "c", "o", "d", "e", "x", ":", " ", "c", "o", "m", "m", "a", "n", "d", " ", "n", "o", "t", " ", "f", "o", "u", "n", "d">>
         [] s = "Invalid input" -> <<"I", "n", "v", "a", "l", "i", "d", " ", "i", "n", "p", "u", "t">>
         [] s = "Rate limit exceeded" -> <<"R", "a", "t", "e", " ", "l", "i", "m", "i", "t", " ", "e", "x", "c", "e", "e", "d", "e", "d">>
         [] s = "not  found" -> <<"n", "o", "t", " ", " ", "f", "o", "u", "n", "d">>
         [] s = "command found" -> <<"c", "o", "m", "m", "a", "n", "d", " ", "f", "o", "u", "n", "d">>
         [] s = "no such file or directory" -> <<"n", "o", " ", "s", "u", "c", "h", " ", "f", "i", "l", "e", " ", "o", "r", " ", "d", "i", "r", "e", "c", "t", "o", "r", "y">>
         [] s = "cannot find" -> <<"c", "a", "n", "n", "o", "t", " ", "f", "i", "n", "d">>
         [] s = "not found" -> <<"n", "o", "t", " ", "f", "o", "u", "n", "d">>
         [] s = "filenotfounderror" -> <<"f", "i", "l", "e", "n", "o", "t", "f", "o", "u", "n", "d", "e", "r", "r", "o", "r">>]

\* str.lower() on the characters that occur
Lower(c) ==
    CASE c = "A" -> "a"
      [] c = "C" -> "c"
      [] c = "D" -> "d"
      [] c = "E" -> "e"
      [] c = "F" -> "f"
      [] c = "G" -> "g"
      [] c = "I" -> "i"
      [] c = "L" -> "l"
      [] c = "M" -> "m"
      [] c = "N" -> "n"
      [] c = "O" -> "o"
      [] c = "P" -> "p"
      [] c = "R" -> "r"
      [] c = "T" -> "t"
      [] c = "U" -> "u"
      [] c = "X" -> "x"
      [] OTHER -> c

LowerText(txt) == [i \in 1..Len(txt) |-> Lower(txt[i])]

RECURSIVE Concat(_)
Concat(parts) ==
    IF parts = <<>> THEN <<>> ELSE Chars[Head(parts)] \o Concat(Tail(parts))

\* "a in b" for Python strings
IsSubstring(a, b) ==
    \E i \in 0..(Len(b) - Len(a)) : SubSeq(b, i + 1, i + Len(a)) = a

error_indicators ==
    << <<"c", "o", "m", "m", "a", "n", "d", " ", "n", "o", "t", " ", "f", "o", "u", "n", "d">>,
       <<"n", "o", " ", "s", "u", "c", "h", " ", "f", "i", "l", "e", " ", "o", "r", " ", "d", "i", "r", "e", "c", "t", "o", "r", "y">>,
       <<"i", "s", " ", "n", "o", "t", " ", "r", "e", "c", "o", "g", "n", "i", "z", "e", "d", " ", "a", "s", " ", "a", "n", " ", "i", "n", "t", "e", "r", "n", "a", "l", " ", "o", "r", " ", "e", "x", "t", "e", "r", "n", "a", "l", " ", "c", "o", "m", "m", "a", "n", "d">>,
       <<"c", "a", "n", "n", "o", "t", " ", "f", "i", "n", "d">>,
       <<"n", "o", "t", " ", "f", "o", "u", "n", "d">>,
       <<"e", "x", "e", "c", "u", "t", "a", "b", "l", "e", " ", "n", "o", "t", " ", "f", "o", "u", "n", "d">>,
       <<"p", "e", "r", "m", "i", "s", "s", "i", "o", "n", " ", "d", "e", "n", "i", "e", "d">>,
       <<"f", "i", "l", "e", "n", "o", "t", "f", "o", "u", "n", "d", "e", "r", "r", "o", "r">>,
       <<"c", "l", "a", "u", "d", "e", " ", "n", "o", "t", " ", "f", "o", "u", "n", "d">>,
       <<"g", "e", "m", "i", "n", "i", " ", "n", "o", "t", " ", "f", "o", "u", "n", "d">>,
       <<"c", "o", "d", "e", "x", " ", "n", "o", "t", " ", "f", "o", "u", "n", "d">> >>

(* ---------------- common/errors.py and built-in exceptions ---------------- *)
\* An exception object: its class, the provider attribute of a
\* ProviderError, the parts of its message, the place where it was
\* constructed (its identity) and its __cause__ (<<>> or <<error>>).
NoErr == [type |-> None, provider |-> "", msg |-> <<>>, at |-> <<>>, cause |-> <<>>]

\* the classes the adapters raise and their base classes
Parent ==
    [c \in {"ProviderError", "ClaifTimeoutError", "ConnectionError", "ConnectionRefusedError",
            "TimeoutError", "FileNotFoundError", "PermissionError", "RuntimeError",
            "ValueError", "OSError", "ClaifError", "Exception", "CancelledError",
            "BaseException", "RetryError"} |->
       CASE c = "ProviderError" -> "ClaifError"
         [] c = "ClaifTimeoutError" -> "ClaifError"
         [] c = "ClaifError" -> "Exception"
         [] c = "ConnectionRefusedError" -> "ConnectionError"
         [] c = "ConnectionError" -> "OSError"
         [] c = "TimeoutError" -> "OSError"
         [] c = "FileNotFoundError" -> "OSError"
         [] c = "PermissionError" -> "OSError"
         [] c = "OSError" -> "Exception"
         [] c = "RuntimeError" -> "Exception"
         [] c = "ValueError" -> "Exception"
         [] c = "Exception" -> "BaseException"
         [] c = "CancelledError" -> "BaseException"
         [] c = "RetryError" -> "Exception"
         [] OTHER -> None]

RECURSIVE IsInstance(_, _)
IsInstance(type, cls) ==
    IF type = cls THEN TRUE
    ELSE IF type = "BaseException" \/ type = None THEN FALSE
    ELSE IsInstance(Parent[type], cls)

\* ProviderError(provider, message): str is "<provider>: <message>"
ProviderError(provider, msg, at, cause) ==
    [type |-> "ProviderError", provider |-> provider, msg |-> msg, at |-> at, cause |-> cause]

\* str(error)
Str(e) ==
    IF e.type = "ProviderError"
    THEN Chars[e.provider] \o Chars[": "] \o Concat(e.msg)
    ELSE Concat(e.msg)

(* ---------------- client.py: helpers ---------------- *)
\* a variant that takes every error for a missing CLI
IsCliMissingError_Any(error) == TRUE

\* a variant that compares the text as it is written
IsCliMissingError_CaseSensitive(error) ==
    LET error_str == Str(error)
    IN  \E i \in 1..Len(error_indicators) : IsSubstring(error_indicators[i], error_str)

\* _is_cli_missing_error
IsCliMissingError(error) ==
    LET error_str == LowerText(Str(error))
    IN  \E i \in 1..Len(error_indicators) : IsSubstring(error_indicators[i], error_str)

\* a variant that gives the install function of Claude for every provider
GetProviderInstallFunction_Claude(provider) == "install_claude"

\* the install function of a provider, named by the provider it installs;
\* None when no function is mapped
GetProviderInstallFunction(provider) ==
    IF provider = CLAUDE THEN "install_claude"
    ELSE IF provider = GEMINI THEN "install_gemini"
    ELSE IF provider = CODEX THEN "install_codex"
    ELSE None

\* the provider that an install function installs
InstallTarget(install_func) ==
    CASE install_func = "install_claude" -> CLAUDE
      [] install_func = "install_gemini" -> GEMINI
      [] install_func = "install_codex" -> CODEX

\* provider.value.title()
Title(provider) ==
    CASE provider = CLAUDE -> "Claude"
      [] provider = GEMINI -> "Gemini"
      [] provider = CODEX -> "Codex"

\* an adapter instance: the class name it was constructed with and the
\* serial number of the construction (object identity)
NewProvider(provider, serial) == [name |-> provider, id |-> serial]
NoInst == [name |-> None, id |-> 0]

\* a variant that builds no new instance
RecreateProviderInstance_Keep(registry, provider, serial) == registry

\* a variant that builds new instances for all the keys
RecreateProviderInstance_All(registry, provider, serial) ==
    [p \in DOMAIN registry |-> NewProvider(p, serial)]

\* a variant that stores the instance before it is constructed
RecreateProviderInstance_Partial(registry, provider, serial) ==
    [registry EXCEPT ![provider] = [NoInst EXCEPT !.name = provider]]

\* a variant that keeps an instance that is itself a replacement
RecreateProviderInstance_Once(registry, provider, serial) ==
    IF registry[provider].id > Cardinality(Provider)
    THEN registry
    ELSE [registry EXCEPT ![provider] = NewProvider(provider, serial)]

\* a variant that makes a new registry with the new instance alone
RecreateProviderInstance_Only(registry, provider, serial) ==
    [p \in {provider} |-> NewProvider(provider, serial)]

\* ClaifClient._recreate_provider_instance: the registry after the call
RecreateProviderInstance(registry, provider, serial) ==
    IF provider \in {CLAUDE, GEMINI, CODEX}
    THEN [registry EXCEPT ![provider] = NewProvider(provider, serial)]
    ELSE registry

(* ---------------- providers/base.py: retry policy ---------------- *)
\* The docstring of BaseProvider.query (opened at line 70) has no closing
\* quotes in the source; the statements of lines 93-160 are taken as the
\* body of the method.  AsyncRetrying is the tenacity library's loop.
\* a variant that retries every exception
retry_exceptions_All == <<"Exception">>

retry_exceptions == <<"ProviderError", "ClaifTimeoutError", "ConnectionError", "TimeoutError">>

\* a variant that retries whatever ended the attempt
IsRetryable_Always(e) == TRUE

\* retry_if_exception_type(retry_exceptions)
IsRetryable(e) ==
    \E i \in 1..Len(retry_exceptions) : IsInstance(e.type, retry_exceptions[i])

\* a variant that needs both conditions
RetriesDisabled_Both(options) == options.no_retry /\ options.retry_count <= 0

\* line 93: retries explicitly disabled
RetriesDisabled(options) == options.no_retry \/ options.retry_count <= 0

\* a variant that stops one attempt late
StopAfterAttempt_Late(options, attempt_number) == attempt_number > options.retry_count

\* stop_after_attempt(options.retry_count)
StopAfterAttempt(options, attempt_number) == attempt_number >= options.retry_count

\* a variant that gives up at once on an error of a missing executable
RetryDecision_MissingFirst(options, attempt_number, e) ==
    IF ~IsRetryable(e) \/ IsCliMissingError(e) THEN "raise"
    ELSE IF StopAfterAttempt(options, attempt_number) THEN "raise"
    ELSE "retry"

\* What the retrying loop does with the exception of a failed attempt:
\* "retry" (sleep, then a new attempt) or "raise" (the exception leaves
\* BaseProvider.query).
RetryDecision(options, attempt_number, e) ==
    IF ~IsRetryable(e) THEN "raise"
    ELSE IF StopAfterAttempt(options, attempt_number) THEN "raise"
    ELSE "retry"

\* a variant without reraise: the RetryError wrapper is raised
Reraise_Wrapped(e) ==
    [type |-> "RetryError", provider |-> "", msg |-> <<>>, at |-> e.at, cause |-> <<e>>]

\* reraise=True: on exhaustion the exception of the last attempt is raised
Reraise(e) == e

\* a variant without the check for an empty attempt
NoMessagesYielded_Never(messages_yielded) == FALSE

\* line 132: the raw call ended and the attempt has passed on no message
NoMessagesYielded(messages_yielded) == ~messages_yielded

\* line 133: the attempt ended without a message
NoResponseError(inst, at) ==
    ProviderError(inst.name,
                  <<"No response received from provider after successful query execution.">>,
                  at, <<>>)

(* ---------------- state ---------------- *)
\* The frames of ClaifClient.query: "main" is the call made by the caller,
\* by query_random or by the loop of query_with_rotation; "second" is a
\* call the caller makes in another task while "main" is running;
\* query_all makes one call per registry key, in a task of its own, named
\* by the key.
TaskIds == {"main", "second"} \cup Provider

VARIABLES
    providers,   \* ClaifClient.providers: the registry, Provider -> adapter instance
    serial,      \* number of adapter instances constructed so far
    installs,    \* number of calls of each provider's install function
    ncalls,      \* number of calls started on the client
    calls,       \* the frame of ClaifClient.query of every task
    op,          \* the frame of the operation the caller has called
    applied      \* a function of the package applied on its own: arguments and result

vars == <<providers, serial, installs, ncalls, calls, op, applied>>

\* what the install function returns: install_result.get("installed") and
\* install_result.get("message")
InstallResults ==
    {[installed |-> TRUE, message |-> "Installed"],
     [installed |-> FALSE, message |-> "Install failed"],
     [installed |-> FALSE, message |-> None]}

\* the exceptions a raw provider call raises
AdapterErrorTypes ==
    {"ProviderError", "ClaifTimeoutError", "ConnectionError", "ConnectionRefusedError",
     "TimeoutError", "FileNotFoundError", "RuntimeError", "ValueError"}
AdapterErrorTexts == {"Permission Denied", "API error"}
\* the exceptions the raw calls raise where a method is built on
\* ClaifClient.query: one of the retryable set and one outside it
SampleErrorTypes == {"ProviderError", "FileNotFoundError"}

\* ClaifOptions()
DefaultOptions ==
    [provider |-> None, retry_count |-> DefaultRetryCount, no_retry |-> FALSE,
     temperature |-> None, max_tokens |-> None, verbose |-> FALSE]
NoInstallResult == [installed |-> FALSE, message |-> None]

\* The frame of one call of ClaifClient.query with the frame of the
\* BaseProvider.query it is running: the local variables of the code
\* (options, provider, provider_instance, attempt_number, messages_yielded,
\* install_result), the exception that ended the last attempt (raised) and
\* the one that left the last run (run_error), and the record of what the
\* call has done: registry0, installs0, serial0 (the registry and the counters
\* when the call began),
\* runs (per run of provider_instance.query: the instance, the number of
\* invocations of the raw call, of attempts that raised and of attempts
\* that ended without a message), hooks (calls of the install function),
\* out (the messages delivered to the caller), status and error.  lookup
\* is what the name _get_provider_install_function is bound to while the
\* call runs: the function of the module, or a mock that returns None
\* (unittest.mock.patch on "claif.client._get_provider_install_function",
\* as in tests/test_client.py, line 184).
\* cancelled: the caller has cancelled the task of the call.
IdleCall ==
    [pc |-> "idle", options |-> DefaultOptions, options_ref |-> None,
     absent |-> FALSE, provider |-> None, lookup |-> "module",
     provider_instance |-> NoInst, registry0 |-> [p \in {} |-> NoInst],
     installs0 |-> [p \in {} |-> 0], serial0 |-> 0,
     run |-> 0, attempt_number |-> 0, messages_yielded |-> FALSE, nmsg |-> 0,
     raised |-> NoErr, run_error |-> NoErr,
     runs |-> <<>>, hooks |-> 0, install_result |-> NoInstallResult,
     out |-> <<>>, status |-> "none", error |-> NoErr, cancelled |-> FALSE]

\* The options objects of an operation, by name: "options" is the object
\* the method holds in its parameter `options` (the caller's object, or the
\* ClaifOptions() made when the caller passed none); a copy made with
\* ClaifOptions(**options.__dict__) is a new object.
NoObjects == [o \in {} |-> DefaultOptions]

\* The frame of the operation in progress: which method the caller called
\* (kind), the options it was given (absent, given), the options objects
\* and their present values (heap), the adapters whose raw call it has
\* invoked so far (invoked); for query_random, the keys the selection is
\* drawn from and the key selected; for query_with_rotation, the locals
\* providers_to_try and providers_tried, the position of the loop (idx),
\* how the iteration over self.query ended for the providers tried so far
\* (outcomes), the messages passed on from the providers that have failed
\* (out) and the outcome (status, error and the details of the error).  The local
\* last_error is written and read in one and the same except handler
\* (lines 348 and 362), so it is no part of the state between two steps.
\* For query_all: the keys the tasks were made for, in the order of the
\* list `tasks` (keys), the number of tasks that have begun to run
\* (nstarted), what query_provider returned in the tasks that have ended
\* (results), the mappings yielded to the caller (yielded), and the state
\* of the client when the method was called (registry0, installs0).
NoDetails == [providers_tried |-> <<>>, last_error |-> <<>>]
NoTaskResult == [status |-> "none", messages |-> <<>>, hooks |-> 0, installed |-> FALSE]
NoResults == [p \in {} |-> NoTaskResult]
IdleOp ==
    [kind |-> "none", absent |-> FALSE, given |-> DefaultOptions, heap |-> NoObjects,
     invoked |-> {}, candidates |-> {}, selected |-> None,
     providers_to_try |-> <<>>, idx |-> 0, providers_tried |-> <<>>, outcomes |-> <<>>,
     out |-> <<>>, status |-> "none", error |-> NoErr, details |-> NoDetails,
     keys |-> <<>>, nstarted |-> 0, results |-> NoResults, yielded |-> <<>>,
     registry0 |-> [p \in {} |-> NoInst], installs0 |-> [p \in {} |-> 0]]

\* no function has been applied on its own
NoApplication == [name |-> None]

\* ClaifClient.__init__
ClientInit ==
    /\ providers = [p \in Provider |-> NewProvider(p, CASE p = CLAUDE -> 1
                                                        [] p = GEMINI -> 2
                                                        [] p = CODEX -> 3)]
    /\ serial = 3
    /\ installs = [p \in Provider |-> 0]
    /\ ncalls = 0
    /\ calls = [t \in TaskIds |-> IdleCall]
    /\ op = IdleOp

Init ==
    /\ ClientInit
    /\ applied = NoApplication

(* ---------------- BaseProvider.query inside ClaifClient.query ---------------- *)
\* one run of provider_instance.query begins: the first attempt invokes
\* the raw call _query_impl, which is then in flight
BeginRun(c, inst) ==
    [c EXCEPT !.pc = "inflight", !.provider_instance = inst, !.run = c.run + 1,
              !.attempt_number = 1, !.messages_yielded = FALSE, !.nmsg = 0,
              !.raised = NoErr, !.run_error = NoErr,
              !.runs = Append(c.runs, [instance |-> inst, invocations |-> 1,
                                       raising |-> 0, empty |-> 0,
                                       status |-> "running", message |-> <<>>])]

\* the call ends with an exception raised to the caller
Raised(c, e) == [c EXCEPT !.pc = "done", !.status = "error", !.error = e]

\* the run in progress ends with exception e
RunEnded(c, e) ==
    [c EXCEPT !.runs[c.run].status = "error", !.runs[c.run].message = e.msg,
              !.run_error = e]

\* a variant with another default
ResolveProvider_Gemini(options) ==
    IF options.provider # None THEN options.provider ELSE GEMINI

\* line 139: the target provider
ResolveProvider(options) ==
    IF options.provider # None THEN options.provider ELSE CLAUDE

\* a variant that indexes the registry without the membership test
UnknownProviderError_KeyError(provider, at) ==
    [type |-> "KeyError", provider |-> "", msg |-> <<provider>>, at |-> at, cause |-> <<>>]

\* lines 142-146
UnknownProviderError(provider, at) ==
    ProviderError(provider, <<"Unknown provider: ", provider>>, at, <<>>)

\* a variant that examines the exception of every run
Remediable_EveryRun(run, e) == IsCliMissingError(e)

\* lines 155-157 and 174-180: the exception of the first run is examined
\* for a missing CLI, the exception of the run after the installation is not
Remediable(run, e) == run = 1 /\ IsCliMissingError(e)

\* client.py, lines 155 and 177: `except Exception as e` catches e
QueryCatches(e) == IsInstance(e.type, "Exception")

\* a variant that ignores the result of the installation
Installed_Ignored(install_result) == TRUE

\* a variant that takes every result with a message for a success
Installed_AnyMessage(install_result) == install_result.message # None

\* line 167: install_result.get("installed")
Installed(install_result) == install_result.installed

\* lines 183-186
AutoInstallFailedError(provider, install_result, at, e) ==
    LET error_msg == IF install_result.message # None
                     THEN install_result.message
                     ELSE "Unknown auto-installation error."
    IN  ProviderError(provider,
                      <<Title(provider), " CLI not found and auto-install failed: ", error_msg>>,
                      at, <<e>>)

\* line 161: the install function the call finds for its provider
InstallFunction(lookup, provider) ==
    IF lookup = "mock_none" THEN None ELSE GetProviderInstallFunction(provider)

\* a variant that raises the error without its cause
NoAutoInstallError_NoCause(provider, at, e) ==
    ProviderError(provider,
                  <<Title(provider), " CLI not found and no auto-install available.">>,
                  at, <<>>)

\* lines 189-190
NoAutoInstallError(provider, at, e) ==
    ProviderError(provider,
                  <<Title(provider), " CLI not found and no auto-install available.">>,
                  at, <<e>>)

\* a variant that writes the resolved provider into the options
QueryCallIn_WritesProvider(t, absent, options, ref, registry, nserial, ninstalls) ==
    LET provider == ResolveProvider(options)
        c0 == [IdleCall EXCEPT !.options = [options EXCEPT !.provider = provider],
                               !.options_ref = ref, !.absent = absent,
                               !.provider = provider, !.registry0 = registry,
                               !.installs0 = ninstalls, !.serial0 = nserial]
    IN  IF provider \notin DOMAIN registry
        THEN Raised(c0, UnknownProviderError(provider, <<t, "query">>))
        ELSE BeginRun(c0, registry[provider])

\* ClaifClient.query, lines 135-153, called in task t with the options
\* object ref, whose value is options, when the client is in the state
\* (registry, nserial, ninstalls): the frame at the first suspension
QueryCallIn(t, absent, options, ref, registry, nserial, ninstalls) ==
    LET provider == ResolveProvider(options)
        c0 == [IdleCall EXCEPT !.options = options, !.options_ref = ref, !.absent = absent,
                               !.provider = provider, !.registry0 = registry,
                               !.installs0 = ninstalls, !.serial0 = nserial]
    IN  IF provider \notin DOMAIN registry
        THEN Raised(c0, UnknownProviderError(provider, <<t, "query">>))
        ELSE BeginRun(c0, registry[provider])

QueryCall(t, absent, options, ref) ==
    QueryCallIn(t, absent, options, ref, providers, serial, installs)

\* the caller calls a method of the client with no options or with given
BeginOp(kind, absent, given) ==
    [IdleOp EXCEPT !.kind = kind, !.absent = absent, !.given = given,
                   !.heap = [o \in {"options"} |-> IF absent THEN DefaultOptions ELSE given]]

(* ---------------- ClaifClient.query_with_rotation: the loop ---------------- *)
\* the keys of the registry in the order of iteration: the order in which
\* __init__ inserted them; the replacement of an instance keeps the place
Keys(registry) == SelectSeq(<<CLAUDE, GEMINI, CODEX>>, LAMBDA p : p \in DOMAIN registry)

\* a variant that appends every key
ProvidersToTry_EveryKey(options, registry) ==
    <<IF options.provider # None THEN options.provider ELSE CLAUDE>> \o Keys(registry)

\* lines 317-324: providers_to_try
ProvidersToTry(options, registry) ==
    LET primary_provider == IF options.provider # None THEN options.provider ELSE CLAUDE
    IN  <<primary_provider>> \o SelectSeq(Keys(registry), LAMBDA p : p # primary_provider)

\* ClaifOptions(**options.__dict__): a new object, named new, with the
\* present values of the fields of `options`
CopyOptions(heap, new) ==
    [o \in DOMAIN heap \cup {new} |-> IF o = new THEN heap["options"] ELSE heap[o]]

\* lines 335-336: current_options, the object made for the provider
CurrentOptions(heap, provider) ==
    [ref |-> provider, heap |-> [CopyOptions(heap, provider) EXCEPT ![provider].provider = provider]]

\* a variant that goes on with the next provider after a success
LoopReturns_Never(c) == FALSE

\* lines 342-344: the iteration over self.query ended without an
\* exception and the method returns
LoopReturns(c) == c.status = "ok"

\* a variant that gives up at the first failure
IsLastProvider_Always(providers_to_try, provider) == TRUE

\* a variant that never finds the last provider
IsLastProvider_Never(providers_to_try, provider) == FALSE

\* line 356
IsLastProvider(providers_to_try, provider) == provider = providers_to_try[Len(providers_to_try)]

\* lines 359-363: the error and its details
AllProvidersFailed(last_error) ==
    ProviderError("all", <<"All providers failed after retry attempts">>,
                  <<"main", "rotation">>, <<last_error>>)
AllProvidersFailedDetails(providers_tried, last_error) ==
    [providers_tried |-> providers_tried, last_error |-> Str(last_error)]

\* a variant that drops the messages of a provider that failed
PassedOn_Discarded(out, c) == out

\* lines 341-342: the messages of the iteration over self.query that has
\* ended as frame c were yielded to the caller as they came; they stay in
\* the caller's stream, after those of the providers tried before
PassedOn(out, c) == out \o c.out

\* the adapters invoked so far in operation o, after a step that leaves frame c
InvokedBy(o, c) == IF c.pc = "inflight" THEN o.invoked \cup {c.provider_instance.name} ELSE o.invoked

\* The loop of lines 330-363 between two suspensions, in operation frame o
\* with the client in the state (registry, nserial, ninstalls).
\* RotationTry is the body for providers_to_try[i] up to the start of the
\* raw call; RotationEnded is what follows the end (frame c) of the
\* iteration over self.query.  Both give the operation frame and the frame
\* of ClaifClient.query at the next suspension or at the end of the method.
RECURSIVE RotationTry(_, _, _, _, _)
RECURSIVE RotationEnded(_, _, _, _, _)
RotationTry(o, i, registry, nserial, ninstalls) ==
    LET provider == o.providers_to_try[i]
        current_options == CurrentOptions(o.heap, provider)
        c == QueryCallIn("main", FALSE, current_options.heap[current_options.ref],
                         current_options.ref, registry, nserial, ninstalls)
        o1 == [o EXCEPT !.idx = i, !.providers_tried = Append(o.providers_tried, provider),
                        !.heap = current_options.heap, !.invoked = InvokedBy(o, c)]
    IN  IF c.pc = "done"
        THEN RotationEnded(o1, c, registry, nserial, ninstalls)
        ELSE [op |-> o1, call |-> c]

RotationEnded(o0, c, registry, nserial, ninstalls) ==
    LET o == [o0 EXCEPT !.outcomes = Append(o0.outcomes, c.status)]
    IN
    IF LoopReturns(c)
    THEN [op |-> [o EXCEPT !.status = "ok"], call |-> c]
    ELSE LET last_error == c.error
         IN  IF IsLastProvider(o.providers_to_try, o.providers_to_try[o.idx])
             THEN [op |-> [o EXCEPT !.status = "error",
                                    !.error = AllProvidersFailed(last_error),
                                    !.details = AllProvidersFailedDetails(o.providers_tried,
                                                                          last_error)],
                   call |-> c]
             ELSE IF o.idx >= Len(o.providers_to_try)
             THEN \* the for loop of line 330 is over: the method returns
                  [op |-> [o EXCEPT !.status = "returned"], call |-> c]
             ELSE RotationTry([o EXCEPT !.out = PassedOn(o.out, c)],
                              o.idx + 1, registry, nserial, ninstalls)

(* ---------------- ClaifClient.query_all: the tasks ---------------- *)
\* a variant that hands the caller's object to every task
ProviderOptions_Shared(heap, provider) ==
    [ref |-> "options", heap |-> [heap EXCEPT !["options"].provider = provider]]

\* lines 252-253: provider_options, the object made for the task
ProviderOptions(heap, provider) ==
    [ref |-> provider, heap |-> [CopyOptions(heap, provider) EXCEPT ![provider].provider = provider]]

\* a variant that lets the exception of the task through
QueryProviderCatches_Nothing(e) == FALSE

\* line 260: except Exception
QueryProviderCatches(e) == IsInstance(e.type, "Exception")

\* a variant that returns what was collected before the failure
QueryProviderMessages_Partial(c) == c.out

\* lines 255-265: the list that query_provider returns when the iteration
\* over self.query has ended as frame c
QueryProviderMessages(c) == IF c.status = "ok" THEN c.out ELSE <<>>

\* what is known of a task that has ended: how self.query ended, the list
\* returned, the calls of the install function and their result
TaskResult(c) ==
    [status |-> c.status, messages |-> QueryProviderMessages(c),
     hooks |-> c.hooks, installed |-> c.hooks >= 1 /\ c.install_result.installed]

\* the frame of a task that has ended
EndedCall == [IdleCall EXCEPT !.pc = "ended"]

\* A step of the task of provider t in operation frame o, which leaves
\* the frame c of self.query: when self.query has ended, query_provider
\* returns in the same step (lines 260-265).
TaskStep(o, t, c) ==
    IF c.pc = "done"
    THEN [op |-> IF c.status = "error" /\ ~QueryProviderCatches(c.error)
                 THEN [o EXCEPT !.status = "error", !.error = c.error]
                 ELSE [o EXCEPT !.results = [p \in DOMAIN o.results \cup {t} |->
                                               IF p = t THEN TaskResult(c) ELSE o.results[p]]],
          call |-> EndedCall]
    ELSE [op |-> [o EXCEPT !.invoked = InvokedBy(o, c)], call |-> c]

\* the adapters invoked so far, after a step that leaves frame c
Invoked(c) == InvokedBy(op, c)

(* ---------------- ClaifClient.query ---------------- *)
\* A step of ClaifClient.query ends at a suspension point, or at the end
\* of the call, with frame c of task t; the code that consumes the call
\* runs on in the same step: the loop of query_with_rotation goes on to
\* its end or to the start of the next raw call.
Commit(t, c) ==
    IF op.kind = "rotation" /\ c.pc = "done"
    THEN LET r == RotationEnded(op, c, providers', serial', installs')
         IN  /\ calls' = [calls EXCEPT ![t] = r.call]
             /\ op' = r.op
    ELSE IF op.kind = "all"
    THEN LET r == TaskStep(op, t, c)
         IN  /\ calls' = [calls EXCEPT ![t] = r.call]
             /\ op' = r.op
    ELSE /\ calls' = [calls EXCEPT ![t] = c]
         /\ op' = [op EXCEPT !.invoked = Invoked(c)]

\* ClaifClient.query, lines 112-149: resolve the provider and start the run
StartQuery(t, absent, given) ==
    LET o == BeginOp("query", absent, given)
        c == QueryCall(t, absent, o.heap["options"], "options")
    IN  /\ op.kind = "none"
        /\ calls[t].pc = "idle"
        /\ ncalls < MaxCalls
        /\ ncalls' = ncalls + 1
        /\ UNCHANGED applied
        /\ calls' = [calls EXCEPT ![t] = c]
        /\ op' = [o EXCEPT !.invoked = Invoked(c)]
        /\ UNCHANGED <<providers, serial, installs>>

\* ClaifClient.query, lines 155-193: the except handler of the first run,
\* and line 177-180: the handler of the run after the installation.
\* c is the frame at the moment the run raised e.
QueryFailed(t, c0, e) ==
    LET c == RunEnded(c0, e)
        provider == c.provider
        install_func == InstallFunction(c.lookup, provider)
        remediable == QueryCatches(e) /\ Remediable(c.run, e)
    IN  IF remediable /\ install_func # None
        THEN \E install_result \in InstallResults :
                LET c1 == [c EXCEPT !.hooks = c.hooks + 1, !.install_result = install_result]
                IN  /\ installs' = [installs EXCEPT ![InstallTarget(install_func)] = @ + 1]
                    /\ IF Installed(install_result)
                       THEN /\ providers' = RecreateProviderInstance(providers, provider, serial + 1)
                            /\ serial' = serial + 1
                            /\ Commit(t, BeginRun(c1, providers'[provider]))
                       ELSE /\ UNCHANGED <<providers, serial>>
                            /\ Commit(t, Raised(c1, AutoInstallFailedError(provider, install_result,
                                                                           <<t, "query">>, e)))
        ELSE /\ UNCHANGED <<providers, serial, installs>>
             /\ Commit(t, IF remediable
                            THEN Raised(c, NoAutoInstallError(provider, <<t, "query">>, e))
                            ELSE Raised(c, e))

\* a variant that takes back the messages of the attempt that failed
AttemptFailed_Retract(t, c0, e) ==
    LET c == [c0 EXCEPT !.raised = e]
    IN  IF RetryDecision(c.options, c.attempt_number, e) = "retry"
        THEN /\ UNCHANGED <<providers, serial, installs>>
             /\ Commit(t, [c EXCEPT !.pc = "sleep",
                                     !.out = SubSeq(c.out, 1, Len(c.out) - c.nmsg)])
        ELSE QueryFailed(t, c, IF IsRetryable(e) THEN Reraise(e) ELSE e)

\* BaseProvider.query, lines 109-146: an attempt of the retrying loop failed with e
AttemptFailed(t, c0, e) ==
    LET c == [c0 EXCEPT !.raised = e]
    IN  IF RetryDecision(c.options, c.attempt_number, e) = "retry"
        THEN /\ UNCHANGED <<providers, serial, installs>>
             /\ Commit(t, [c EXCEPT !.pc = "sleep"])
        ELSE QueryFailed(t, c, IF IsRetryable(e) THEN Reraise(e) ELSE e)

\* a variant that yields every message twice
Deliver_Twice(out, m) == out \o <<m, m>>

\* base.py, lines 96 and 129, and client.py, lines 154 and 176: `yield
\* message` in the loops over the raw call and over the run
Deliver(out, m) == Append(out, m)

\* the raw call yields a message (the k-th of at most limit), which is
\* passed on to the caller at once
ImplYieldUpTo(t, limit) ==
    LET c == calls[t]
        m == [instance |-> c.provider_instance.id, run |-> c.run,
              attempt |-> c.attempt_number, k |-> c.nmsg + 1]
    IN  /\ c.pc = "inflight"
        /\ c.nmsg < limit
        /\ UNCHANGED <<providers, serial, installs, ncalls, applied>>
        /\ Commit(t, [c EXCEPT !.nmsg = c.nmsg + 1, !.out = Deliver(c.out, m),
                                !.messages_yielded = ~RetriesDisabled(c.options)])

ImplYield(t) == ImplYieldUpTo(t, MaxMsgs)

\* a variant that wants a message from every raw call
EndsWell_NeedsMessage(options, messages_yielded) == ~NoMessagesYielded(messages_yielded)

\* the raw call has ended without raising: the single attempt of lines
\* 95-97 is over and the method returns, whatever was yielded; an attempt
\* of the retrying loop returns (line 137) unless it has yielded nothing
\* (lines 132-135)
EndsWell(options, messages_yielded) ==
    RetriesDisabled(options) \/ ~NoMessagesYielded(messages_yielded)

\* the raw call ends without raising
ImplReturn(t) ==
    LET c == calls[t]
        ok == [c EXCEPT !.pc = "done", !.status = "ok", !.runs[c.run].status = "ok"]
    IN  /\ c.pc = "inflight"
        /\ UNCHANGED <<ncalls, applied>>
        /\ IF EndsWell(c.options, c.messages_yielded)
           THEN /\ UNCHANGED <<providers, serial, installs>>
                /\ Commit(t, ok)
           ELSE AttemptFailed(t, [c EXCEPT !.runs[c.run].empty = c.runs[c.run].empty + 1],
                              NoResponseError(c.provider_instance,
                                              <<t, c.run, c.attempt_number>>))

\* the raw call raises an exception
ImplRaise(t, type, text) ==
    LET c0 == calls[t]
        c == [c0 EXCEPT !.runs[c0.run].raising = c0.runs[c0.run].raising + 1]
        e == [type |-> type,
              provider |-> IF type = "ProviderError" THEN c.provider_instance.name ELSE "",
              msg |-> <<text>>, at |-> <<t, c.run, c.attempt_number>>, cause |-> <<>>]
    IN  /\ c0.pc = "inflight"
        /\ UNCHANGED <<ncalls, applied>>
        /\ IF RetriesDisabled(c.options)
           THEN QueryFailed(t, [c EXCEPT !.raised = e], e)
           ELSE AttemptFailed(t, c, e)

\* the delay between two attempts is over: the next attempt invokes the raw call
Wake(t) ==
    LET c == calls[t]
    IN  /\ c.pc = "sleep"
        /\ UNCHANGED <<providers, serial, installs, ncalls, applied>>
        /\ Commit(t, [c EXCEPT !.pc = "inflight", !.attempt_number = c.attempt_number + 1,
                                !.messages_yielded = FALSE, !.nmsg = 0, !.raised = NoErr,
                                !.runs[c.run].invocations = c.runs[c.run].invocations + 1])

\* asyncio.CancelledError() raised in task t at its suspension point
CancelledError(t, c) ==
    [type |-> "CancelledError", provider |-> "", msg |-> <<>>,
     at |-> <<t, c.run, c.attempt_number>>, cause |-> <<>>]

\* The caller cancels the task of the call while it is suspended in the
\* raw call or in the sleep of the retrying loop: CancelledError is raised
\* there.  In the raw call it ends the attempt (inside `with attempt`,
\* lines 119-146, or in the single attempt of lines 95-97); in the sleep
\* it leaves the loop at `async for attempt` (line 109).
Cancel(t) ==
    LET c0 == calls[t]
        c == [c0 EXCEPT !.cancelled = TRUE]
        e == CancelledError(t, c0)
    IN  /\ c0.pc \in {"inflight", "sleep"}
        /\ UNCHANGED <<ncalls, applied>>
        /\ IF c0.pc = "sleep"
           THEN QueryFailed(t, c, e)
           ELSE IF RetriesDisabled(c.options)
           THEN QueryFailed(t, [c EXCEPT !.raised = e], e)
           ELSE AttemptFailed(t, c, e)

\* the caller has the outcome of the call; the task can make another call
Return(t) ==
    /\ op.kind \in {"query", "random", "rotation"}
    /\ calls[t].pc = "done"
    /\ calls' = [calls EXCEPT ![t] = IdleCall]
    /\ op' = IdleOp
    /\ UNCHANGED <<providers, serial, installs, ncalls, applied>>

Next ==
    \/ StartQuery("main", TRUE, None)
    \/ \E given \in ClaifOptions : StartQuery("main", FALSE, given)
    \/ \E t \in TaskIds : ImplYield(t)
    \/ \E t \in TaskIds : ImplReturn(t)
    \/ \E t \in TaskIds, type \in AdapterErrorTypes, text \in AdapterErrorTexts :
          ImplRaise(t, type, text)
    \/ \E t \in TaskIds : Wake(t)
    \/ \E t \in TaskIds : Return(t)

Spec == Init /\ [][Next]_vars

(* ---------------- the attempts and the hook of one call ---------------- *)
\* The raw calls raise exceptions whose text tells their class: a
\* ProviderError and a FileNotFoundError with the text of a missing
\* executable, a ProviderError and a ValueError with another text.
BudgetErrors ==
    {[type |-> "ProviderError", text |-> "Permission Denied"],
     [type |-> "FileNotFoundError", text |-> "No such file or directory"],
     [type |-> "ProviderError", text |-> "API error"],
     [type |-> "ValueError", text |-> "Invalid input"]}

\* retries enabled, one attempt or more
BudgetOptions ==
    {o \in ClaifOptions : o.retry_count >= 1 /\ ~o.no_retry /\ o.provider \in {None, GEMINI}}

NextBudget ==
    \/ \E given \in BudgetOptions : StartQuery("main", FALSE, given)
    \/ ImplYield("main")
    \/ ImplReturn("main")
    \/ \E e \in BudgetErrors : ImplRaise("main", e.type, e.text)
    \/ Wake("main")
    \/ Return("main")

SpecBudget == Init /\ [][NextBudget]_vars

(* ---------------- a call that its caller may cancel ---------------- *)
CancelOptions ==
    {o \in ClaifOptions : o.retry_count \in {0, 2} /\ ~o.no_retry /\ o.provider \in {None, GEMINI}}

NextCancel ==
    \/ \E given \in CancelOptions : StartQuery("main", FALSE, given)
    \/ ImplYield("main")
    \/ ImplReturn("main")
    \/ \E type \in SampleErrorTypes, text \in AdapterErrorTexts : ImplRaise("main", type, text)
    \/ Wake("main")
    \/ Cancel("main")
    \/ Return("main")

SpecCancel == Init /\ [][NextCancel]_vars

(* ---------------- ClaifClient.query with the lookup patched ---------------- *)
\* ClaifClient.query is called while _get_provider_install_function is
\* patched with a mock that returns None
StartPatched(t, absent, given) ==
    LET o == BeginOp("query", absent, given)
        c == [QueryCall(t, absent, o.heap["options"], "options") EXCEPT !.lookup = "mock_none"]
    IN  /\ op.kind = "none"
        /\ calls[t].pc = "idle"
        /\ ncalls < MaxCalls
        /\ ncalls' = ncalls + 1
        /\ UNCHANGED applied
        /\ calls' = [calls EXCEPT ![t] = c]
        /\ op' = [o EXCEPT !.invoked = Invoked(c)]
        /\ UNCHANGED <<providers, serial, installs>>

NextPatched ==
    \/ StartPatched("main", TRUE, None)
    \/ \E given \in ClaifOptions : StartPatched("main", FALSE, given)
    \/ ImplYield("main")
    \/ ImplReturn("main")
    \/ \E type \in SampleErrorTypes, text \in AdapterErrorTexts : ImplRaise("main", type, text)
    \/ Wake("main")
    \/ Return("main")

SpecPatched == Init /\ [][NextPatched]_vars

(* ---------------- ClaifClient.query with options of the caller ---------------- *)
\* options as tests/test_client.py, lines 166-171, sets them: fields the
\* dispatch core does not read are set or left at their defaults
PassedOptions ==
    [provider : {None, CODEX}, retry_count : {0, 1}, no_retry : {FALSE},
     temperature : {None, "0.5"}, max_tokens : {None, "1000"}, verbose : BOOLEAN]

NextOptions ==
    \/ StartQuery("main", TRUE, None)
    \/ \E given \in PassedOptions : StartQuery("main", FALSE, given)
    \/ ImplYield("main")
    \/ ImplReturn("main")
    \/ \E type \in SampleErrorTypes, text \in AdapterErrorTexts : ImplRaise("main", type, text)
    \/ Wake("main")
    \/ Return("main")

SpecOptions == Init /\ [][NextOptions]_vars

(* ---------------- ClaifClient.query: the stream of one call ---------------- *)
\* options with retries disabled and with up to two attempts
StreamOptions ==
    {o \in ClaifOptions : o.retry_count \in {0, 2} /\ ~o.no_retry /\ o.provider \in {None, GEMINI}}

NextStream ==
    \/ \E given \in StreamOptions : StartQuery("main", FALSE, given)
    \/ ImplYieldUpTo("main", MaxStream)
    \/ ImplReturn("main")
    \/ \E type \in SampleErrorTypes, text \in AdapterErrorTexts : ImplRaise("main", type, text)
    \/ Wake("main")
    \/ Return("main")

SpecStream == Init /\ [][NextStream]_vars

(* ---------------- two tasks that share one client ---------------- *)
\* ClaifClient.query is called in task t, while the other task may be in
\* the middle of a call of its own
StartShared(t, given) ==
    LET c == QueryCall(t, FALSE, given, "options")
    IN  /\ op.kind \in {"none", "shared"}
        /\ calls[t].pc = "idle"
        /\ ncalls < MaxShared
        /\ ncalls' = ncalls + 1
        /\ UNCHANGED applied
        /\ calls' = [calls EXCEPT ![t] = c]
        /\ op' = [op EXCEPT !.kind = "shared", !.invoked = Invoked(c)]
        /\ UNCHANGED <<providers, serial, installs>>

\* the task has the outcome of its call
ReturnShared(t) ==
    /\ op.kind = "shared"
    /\ calls[t].pc = "done"
    /\ calls' = [calls EXCEPT ![t] = IdleCall]
    /\ UNCHANGED <<providers, serial, installs, ncalls, op, applied>>

\* The tasks call with options that allow one attempt per run and name
\* GEMINI or no provider.
SharedTasks == {"main", "second"}
SharedOptions ==
    {o \in ClaifOptions : o.retry_count = 1 /\ ~o.no_retry /\ o.provider \in {None, GEMINI}}

NextShared ==
    \/ \E t \in SharedTasks, given \in SharedOptions : StartShared(t, given)
    \/ \E t \in SharedTasks : ImplYield(t)
    \/ \E t \in SharedTasks : ImplReturn(t)
    \/ \E t \in SharedTasks, type \in SampleErrorTypes, text \in AdapterErrorTexts :
          ImplRaise(t, type, text)
    \/ \E t \in SharedTasks : ReturnShared(t)

SpecShared == Init /\ [][NextShared]_vars

\* Two tasks call for the same provider, CLAUDE, and the raw calls raise
\* the error of a missing executable or another one.
RaceOptions ==
    {o \in ClaifOptions : o.retry_count = 1 /\ ~o.no_retry /\ o.provider = None}

NextRace ==
    \/ \E t \in SharedTasks, given \in RaceOptions : StartShared(t, given)
    \/ \E t \in SharedTasks : ImplYield(t)
    \/ \E t \in SharedTasks : ImplReturn(t)
    \/ \E t \in SharedTasks, type \in {"FileNotFoundError"}, text \in AdapterErrorTexts :
          ImplRaise(t, type, text)
    \/ \E t \in SharedTasks : ReturnShared(t)

SpecRace == Init /\ [][NextRace]_vars

(* ---------------- ClaifClient.query_random ---------------- *)
\* line 215: the keys random.choice draws from, list(self.providers.keys())
Candidates(registry) == DOMAIN registry

\* a variant that leaves the options object as it was given
WriteSelection_Skip(heap, provider) == heap

\* line 216: options.provider = provider
WriteSelection(heap, provider) == [heap EXCEPT !["options"].provider = provider]

\* query_random, lines 211-221: select a key, write it into the options
\* object and start ClaifClient.query with that object
StartRandom(absent, given) ==
    \E provider \in Candidates(providers) :
        LET o == BeginOp("random", absent, given)
            heap == WriteSelection(o.heap, provider)
            c == QueryCall("main", FALSE, heap["options"], "options")
        IN  /\ op.kind = "none"
            /\ calls["main"].pc = "idle"
            /\ ncalls < MaxCalls
            /\ ncalls' = ncalls + 1
            /\ UNCHANGED applied
            /\ calls' = [calls EXCEPT !["main"] = c]
            /\ op' = [o EXCEPT !.heap = heap, !.candidates = Candidates(providers),
                               !.selected = provider, !.invoked = Invoked(c)]
            /\ UNCHANGED <<providers, serial, installs>>

NextRandom ==
    \/ StartRandom(TRUE, None)
    \/ \E given \in ClaifOptions : StartRandom(FALSE, given)
    \/ ImplYield("main")
    \/ ImplReturn("main")
    \/ \E type \in SampleErrorTypes, text \in AdapterErrorTexts : ImplRaise("main", type, text)
    \/ Wake("main")
    \/ Return("main")

SpecRandom == Init /\ [][NextRandom]_vars

(* ---------------- ClaifClient.query_with_rotation ---------------- *)
\* lines 313-343: the try order is fixed and the loop runs to the start
\* of the first raw call
StartRotation(absent, given) ==
    LET o == BeginOp("rotation", absent, given)
        r == RotationTry([o EXCEPT !.status = "running",
                                   !.providers_to_try = ProvidersToTry(o.heap["options"], providers)],
                         1, providers, serial, installs)
    IN  /\ op.kind = "none"
        /\ calls["main"].pc = "idle"
        /\ ncalls < MaxCalls
        /\ ncalls' = ncalls + 1
        /\ UNCHANGED applied
        /\ calls' = [calls EXCEPT !["main"] = r.call]
        /\ op' = r.op
        /\ UNCHANGED <<providers, serial, installs>>

\* The rotation is followed with options that allow one attempt per run,
\* with the retrying loop (retry_count 1) and without it (retry_count 0),
\* and with raw calls that raise an exception outside the retryable set.
RotationOptions == {o \in ClaifOptions : o.retry_count \in {0, 1} /\ ~o.no_retry}
RotationErrorTypes == {"FileNotFoundError"}

NextRotation ==
    \/ \E given \in RotationOptions : StartRotation(FALSE, given)
    \/ ImplYield("main")
    \/ ImplReturn("main")
    \/ \E type \in RotationErrorTypes, text \in AdapterErrorTexts : ImplRaise("main", type, text)
    \/ Return("main")

SpecRotation == Init /\ [][NextRotation]_vars

\* The stream of the caller is followed with options that allow one
\* attempt per run and name the first provider or leave it open.
RelayOptions ==
    {o \in ClaifOptions : o.retry_count = 1 /\ ~o.no_retry /\ o.provider \in {None, GEMINI}}

NextRelay ==
    \/ \E given \in RelayOptions : StartRotation(FALSE, given)
    \/ ImplYield("main")
    \/ ImplReturn("main")
    \/ \E type \in RotationErrorTypes, text \in AdapterErrorTexts : ImplRaise("main", type, text)
    \/ Return("main")

SpecRelay == Init /\ [][NextRelay]_vars

\* Calls with the retries disabled: by no_retry with a positive
\* retry_count, by a retry_count of zero and by a negative retry_count.
DisabledOptions ==
    {o \in ClaifOptions : /\ o.provider = None
                          /\ \/ o.no_retry /\ o.retry_count = 1
                             \/ ~o.no_retry /\ o.retry_count <= 0}

NextDisabled ==
    \/ \E given \in DisabledOptions : StartQuery("main", FALSE, given)
    \/ \E given \in DisabledOptions : StartRotation(FALSE, given)
    \/ ImplYield("main")
    \/ ImplReturn("main")
    \/ \E type \in RotationErrorTypes, text \in AdapterErrorTexts : ImplRaise("main", type, text)
    \/ Return("main")

SpecDisabled == Init /\ [][NextDisabled]_vars

(* ---------------- ClaifClient.query_all ---------------- *)
\* lines 243-273: the coroutines of the tasks are made, one for every key
\* of the registry, and the method waits in asyncio.gather
StartAll(absent, given) ==
    /\ op.kind = "none"
    /\ \A t \in TaskIds : calls[t].pc = "idle"
    /\ ncalls < MaxCalls
    /\ ncalls' = ncalls + 1
    /\ UNCHANGED applied
    /\ op' = [BeginOp("all", absent, given) EXCEPT
                 !.status = "running", !.keys = Keys(providers),
                 !.registry0 = providers, !.installs0 = installs]
    /\ UNCHANGED <<providers, serial, installs, calls>>

\* a variant that runs the tasks one after the other
Scheduled_InTurn(o) ==
    IF o.nstarted < Len(o.keys) /\ \A i \in 1..o.nstarted : o.keys[i] \in DOMAIN o.results
    THEN <<o.keys[o.nstarted + 1]>>
    ELSE <<>>

\* line 273: asyncio.gather makes a task of every coroutine of the list
\* and schedules them all; the event loop takes them up one after the
\* other, in the order of the list, as soon as query_all is suspended
Scheduled(o) == IF o.nstarted = 0 THEN o.keys ELSE <<>>

\* lines 246-259: the tasks of the providers in todo begin, in this order:
\* each makes its options and calls self.query, which runs to the start of
\* the raw call, where the task is suspended and the next one begins
RECURSIVE TasksBegin(_, _, _)
TasksBegin(o, frames, todo) ==
    IF todo = <<>>
    THEN [op |-> o, calls |-> frames]
    ELSE LET provider == Head(todo)
             provider_options == ProviderOptions(o.heap, provider)
             c == QueryCall(provider, FALSE, provider_options.heap[provider_options.ref],
                            provider_options.ref)
             r == TaskStep([o EXCEPT !.nstarted = o.nstarted + 1,
                                     !.heap = provider_options.heap], provider, c)
         IN  TasksBegin(r.op, [frames EXCEPT ![provider] = r.call], Tail(todo))

TaskStart ==
    /\ op.kind = "all" /\ op.status = "running"
    /\ Scheduled(op) # <<>>
    /\ LET r == TasksBegin(op, calls, Scheduled(op))
       IN  /\ calls' = r.calls
           /\ op' = r.op
    /\ UNCHANGED <<providers, serial, installs, ncalls, applied>>

\* a variant that does not wait for every task
GatherReady_First(o) == DOMAIN o.results # {}

\* line 273: asyncio.gather is done when every task is done
GatherReady(o) == \A i \in 1..Len(o.keys) : o.keys[i] \in DOMAIN o.results

\* lines 273-278: the results are gathered and the mapping is yielded
Gather ==
    /\ op.kind = "all" /\ op.status = "running"
    /\ GatherReady(op)
    /\ op' = [op EXCEPT !.status = "ok",
                        !.yielded = Append(op.yielded,
                                           [p \in DOMAIN op.results |-> op.results[p].messages])]
    /\ UNCHANGED <<providers, serial, installs, ncalls, calls, applied>>

\* the caller has the outcome of query_all
ReturnAll ==
    /\ op.kind = "all" /\ op.status \in {"ok", "error"}
    /\ calls' = [t \in TaskIds |-> IdleCall]
    /\ op' = IdleOp
    /\ UNCHANGED <<providers, serial, installs, ncalls, applied>>

\* The tasks are followed with options that allow one attempt per run and
\* with raw calls that raise one exception of the retryable set and one
\* outside it.
AllOptions ==
    {o \in ClaifOptions : o.retry_count = 1 /\ ~o.no_retry /\ o.provider \in {None, GEMINI}}
AllErrorTypes == SampleErrorTypes
\* the providers whose raw call may raise where the tasks are followed;
\* the raw call of every provider may end without a message, which fails
\* the task as well
AllRaising == {CLAUDE, GEMINI}

NextAll ==
    \/ \E given \in AllOptions : StartAll(FALSE, given)
    \/ TaskStart
    \/ \E p \in Provider : ImplYield(p)
    \/ \E p \in Provider : ImplReturn(p)
    \/ \E p \in AllRaising, type \in AllErrorTypes, text \in AdapterErrorTexts :
          ImplRaise(p, type, text)
    \/ Gather
    \/ ReturnAll

SpecAll == Init /\ [][NextAll]_vars

\* The tasks are followed with raw calls that raise only after they have
\* yielded a message: a task whose raw call raised has passed on a message
\* before.
ImplRaiseAfterYield(t, type, text) ==
    /\ calls[t].nmsg >= 1
    /\ ImplRaise(t, type, text)

NextPartial ==
    \/ \E given \in AllOptions : StartAll(FALSE, given)
    \/ TaskStart
    \/ \E p \in Provider : ImplYield(p)
    \/ \E p \in Provider : ImplReturn(p)
    \/ \E p \in AllRaising, type \in AllErrorTypes, text \in AdapterErrorTexts :
          ImplRaiseAfterYield(p, type, text)
    \/ Gather
    \/ ReturnAll

SpecPartial == Init /\ [][NextPartial]_vars

\* tests/test_client.py, line 138: a caller removes a key of the public
\* attribute ClaifClient.providers before it makes a call
DelProvider(p) ==
    /\ ncalls = 0
    /\ DOMAIN providers = Provider
    /\ p \in DOMAIN providers
    /\ providers' = [q \in DOMAIN providers \ {p} |-> providers[q]]
    /\ UNCHANGED <<serial, installs, ncalls, calls, op, applied>>

NextHarness ==
    \/ \E p \in Provider : DelProvider(p)
    \/ StartQuery("main", TRUE, None)
    \/ \E given \in ClaifOptions : StartQuery("main", FALSE, given)
    \/ ImplYield("main")
    \/ ImplReturn("main")
    \/ \E type \in SampleErrorTypes, text \in AdapterErrorTexts : ImplRaise("main", type, text)
    \/ Wake("main")
    \/ Return("main")

SpecHarness == Init /\ [][NextHarness]_vars

(* ---------------- every way a call can end ---------------- *)
\* The caller may remove a key before its calls, the lookup of the install
\* function may be patched, and the raw calls raise an exception of the
\* retryable set or one outside it, with the text of a missing executable
\* or another one; the options are those of RelayOptions (one attempt per
\* run, the provider named or left open).
NextEnding ==
    \/ \E p \in Provider : DelProvider(p)
    \/ \E given \in RelayOptions : StartQuery("main", FALSE, given)
    \/ \E given \in RelayOptions : StartPatched("main", FALSE, given)
    \/ ImplYield("main")
    \/ ImplReturn("main")
    \/ \E type \in SampleErrorTypes, text \in AdapterErrorTexts : ImplRaise("main", type, text)
    \/ Return("main")

SpecEnding == Init /\ [][NextEnding]_vars

(* ---------------- the four methods on one client ---------------- *)
\* ClaifClient.list_providers, lines 280-287: list(self.providers.keys()),
\* called by the caller at any moment, also while a method is suspended
ListProviders ==
    /\ applied.name \in {None, "list_providers"}
    /\ applied' = [name |-> "list_providers", result |-> Keys(providers)]
    /\ UNCHANGED <<providers, serial, installs, ncalls, calls, op>>

\* The caller makes calls of the four methods, one after the other, with
\* options that allow one attempt per run, with the retrying loop
\* (retry_count 1) and without it (retry_count 0).  The messages have no
\* part in what the methods do with the registry, so the raw calls yield
\* none here: a raw call ends without a message (which ends the run well
\* without the retrying loop and fails it with the loop) or raises an
\* exception, one of the retryable set or one outside it.
ClientOptions ==
    {o \in ClaifOptions : o.retry_count \in {0, 1} /\ ~o.no_retry /\ o.provider \in {None, GEMINI}}

NextClient ==
    \/ \E given \in ClientOptions : StartQuery("main", FALSE, given)
    \/ \E given \in ClientOptions : StartRandom(FALSE, given)
    \/ \E given \in ClientOptions : StartRotation(FALSE, given)
    \/ \E given \in ClientOptions : StartAll(FALSE, given)
    \/ TaskStart
    \/ \E t \in TaskIds : ImplReturn(t)
    \/ \E t \in {"main", CLAUDE, GEMINI}, type \in SampleErrorTypes, text \in AdapterErrorTexts :
          ImplRaise(t, type, text)
    \/ Gather
    \/ Return("main")
    \/ ReturnAll
    \/ ListProviders

SpecClient == Init /\ [][NextClient]_vars

(* ---------------- calls that come to an end ---------------- *)
\* One call of one of the four methods, from its start to its end, with
\* options that allow two attempts per run (retry_count 2) or switch the
\* retrying loop off (retry_count 0).  The raw calls of "main" and of the
\* task of claude may raise; a raw call of "main" that yields does so in
\* the first attempt of a first run.
LiveOptions ==
    {o \in ClaifOptions : o.retry_count \in {0, 2} /\ ~o.no_retry /\ o.provider = None}

LiveYield(t) ==
    /\ calls[t].run = 1 /\ calls[t].attempt_number = 1
    /\ ImplYield(t)

\* the raw call of task t ends: it returns or it raises
RawCallEnds(t) ==
    \/ ImplReturn(t)
    \/ \E type \in SampleErrorTypes, text \in AdapterErrorTexts :
          t \in {"main", CLAUDE} /\ ImplRaise(t, type, text)

NextLive ==
    \/ \E given \in LiveOptions : StartQuery("main", FALSE, given)
    \/ \E given \in LiveOptions : StartRandom(FALSE, given)
    \/ \E given \in LiveOptions : StartRotation(FALSE, given)
    \/ \E given \in LiveOptions : StartAll(FALSE, given)
    \/ TaskStart
    \/ LiveYield("main")
    \/ \E t \in TaskIds : RawCallEnds(t)
    \/ \E t \in TaskIds : Wake(t)
    \/ Gather

\* Every raw call that has been invoked ends: no task stays in a raw call
\* for ever (the install function is called and returns within a step).
\* The event loop starts the tasks that asyncio.gather has scheduled.  The
\* sleep between two attempts is finite, and the event loop resumes
\* query_all when its tasks are done.
Fairness ==
    /\ \A t \in TaskIds : []<>(calls[t].pc # "inflight")
    /\ []<>(~(op.kind = "all" /\ op.status = "running" /\ Scheduled(op) # <<>>))
    /\ \A t \in TaskIds : WF_vars(Wake(t))
    /\ WF_vars(Gather)

SpecLive == Init /\ [][NextLive]_vars /\ Fairness

(* ---------------- common/types.py: Message ---------------- *)
\* A Python value is a record tagged with its type (py): a str with its
\* value, a list with its items.
PyStr(value) == [py |-> "str", value |-> value]
PyList(items) == [py |-> "list", items |-> items]

\* the dataclasses of the content blocks, with the fields given and the
\* defaults of the others
TextBlock(text) == [type |-> "text", text |-> text]
ToolUseBlock(id, name) == [type |-> "tool_use", id |-> id, name |-> name, input |-> <<>>]
ToolResultBlock(tool_use_id) ==
    [type |-> "tool_result", tool_use_id |-> tool_use_id, content |-> <<>>, is_error |-> FALSE]

MessageRole == {"user", "assistant", "system", "result"}

\* a variant that leaves the content as it was given
PostInit_Keep(content) == content

\* Message.__post_init__, lines 129-130: the content after the hook
PostInit(content) ==
    IF content.py = "str" THEN PyList(<<TextBlock(content.value)>>) ELSE content

\* the contents the tests construct a Message with: a string, or a list
\* of blocks
SampleTexts == {"", "Hello", "World"}
SampleBlocks ==
    {TextBlock(text) : text \in {"Hello", "World"}}
        \cup {ToolUseBlock("tool_1", "search"), ToolResultBlock("tool_1")}
RECURSIVE BlockLists(_)
BlockLists(n) ==
    IF n = 0 THEN {<<>>}
    ELSE LET shorter == BlockLists(n - 1)
         IN  shorter \cup {Append(l, b) : l \in {x \in shorter : Len(x) = n - 1},
                                            b \in SampleBlocks}
SampleContents ==
    {PyStr(text) : text \in SampleTexts} \cup {PyList(l) : l \in BlockLists(MaxBlocks)}

\* Message(role, content) is about to be constructed
InitMessage ==
    /\ ClientInit
    /\ \E role \in MessageRole, content \in SampleContents :
           applied = [name |-> "Message", role |-> role, given |-> content,
                      content |-> content, constructed |-> content, post_inits |-> 0]

\* the generated __init__ assigns the fields and calls __post_init__; a
\* later call of __post_init__ (dataclasses.replace makes one) runs the
\* same code on the content the message has by then
RunPostInit ==
    /\ applied.name = "Message"
    /\ applied.post_inits < MaxPostInit
    /\ applied' = [applied EXCEPT !.content = PostInit(applied.content),
                                   !.constructed = IF applied.post_inits = 0
                                                   THEN PostInit(applied.content)
                                                   ELSE applied.constructed,
                                   !.post_inits = applied.post_inits + 1]
    /\ UNCHANGED <<providers, serial, installs, ncalls, calls, op>>

NextMessage == RunPostInit

SpecMessage == InitMessage /\ [][NextMessage]_vars

(* ---------------- client.py: _is_cli_missing_error on its own ---------------- *)
\* the exceptions of tests/test_client.py, lines 18-37, and others of
\* their kind: texts in other letter cases, inside longer texts, near
\* misses, the empty text; a ProviderError has its provider before the text
ClassifyTypes ==
    {"Exception", "FileNotFoundError", "RuntimeError", "PermissionError", "ValueError",
     "ProviderError"}
ClassifyTexts ==
    {"command not found", "claude not found", "gemini not found", "codex not found",
     "No such file or directory", "permission denied", "Permission Denied",
     "is not recognized as an internal or external command", "executable not found",
     "Cannot find gemini", "FileNotFoundError", "COMMAND NOT FOUND",
     "bash: codex: command not found",
     "API error", "Invalid input", "Connection timeout", "Rate limit exceeded",
     "not  found", "command found", ""}

InitClassify ==
    /\ ClientInit
    /\ \E type \in ClassifyTypes, text \in ClassifyTexts :
           applied = [name |-> "_is_cli_missing_error",
                      error |-> [type |-> type,
                                 provider |-> IF type = "ProviderError" THEN CLAUDE ELSE "",
                                 msg |-> <<text>>, at |-> <<>>, cause |-> <<>>],
                      called |-> FALSE, result |-> FALSE]

\* _is_cli_missing_error(error) is called
Classify ==
    /\ applied.name = "_is_cli_missing_error"
    /\ ~applied.called
    /\ applied' = [applied EXCEPT !.called = TRUE, !.result = IsCliMissingError(applied.error)]
    /\ UNCHANGED <<providers, serial, installs, ncalls, calls, op>>

NextClassify == Classify

SpecClassify == InitClassify /\ [][NextClassify]_vars

(* ---------------- providers/base.py: the delay between attempts ---------------- *)
\* a retry_delay is a whole number of time quanta; ClaifOptions takes any
\* float for it, a negative one included (common/types.py, line 170, and
\* common/config.py, lines 254-256, validate nothing)
RetryDelays == (0 - 2)..MaxDelay

Greater(a, b) == IF a >= b THEN a ELSE b
Lesser(a, b) == IF a <= b THEN a ELSE b

WaitExponential_NoCap(multiplier, min, max, attempt_number) ==
    Greater(Greater(0, min), multiplier * 2 ^ (attempt_number - 1))

\* tenacity's wait_exponential(multiplier, min, max) after the failed attempt
\* attempt_number, with exp_base 2:
\*   max(max(0, min), min(multiplier * 2 ** (attempt_number - 1), max))
WaitExponential(multiplier, min, max, attempt_number) ==
    Greater(Greater(0, min), Lesser(multiplier * 2 ^ (attempt_number - 1), max))

\* the wait of the AsyncRetrying of BaseProvider.query, lines 109-118:
\* wait_exponential(multiplier=retry_delay, min=retry_delay, max=retry_delay * 10)
RetryWait(retry_delay, attempt_number) ==
    WaitExponential(retry_delay, retry_delay, retry_delay * 10, attempt_number)

InitWait ==
    /\ ClientInit
    /\ \E retry_delay \in RetryDelays :
           applied = [name |-> "wait_exponential", retry_delay |-> retry_delay,
                      attempt_number |-> 0, waits |-> <<>>]

\* one more attempt fails with a retryable error and the delay before the
\* next attempt is computed; waits[n] is the delay after failed attempt n
AttemptFails ==
    /\ applied.name = "wait_exponential"
    /\ applied.attempt_number < MaxAttempt
    /\ LET n == applied.attempt_number + 1 IN
       applied' = [applied EXCEPT !.attempt_number = n,
                                  !.waits = Append(@, RetryWait(applied.retry_delay, n))]
    /\ UNCHANGED <<providers, serial, installs, ncalls, calls, op>>

NextWait == AttemptFails

SpecWait == InitWait /\ [][NextWait]_vars

(* ---------------- properties ---------------- *)
Frame(t) == calls[t]
Began(t) == Frame(t).pc # "idle"
Done(t) == Frame(t).pc = "done"
\* the run of BaseProvider.query that the call made last
LastRun(t) == Frame(t).runs[Frame(t).run]
\* the call has called the install function and it reported installed: v
HookReported(t, v) == Frame(t).hooks >= 1 /\ Frame(t).install_result.installed = v
RegistryInstances(registry) == {registry[p] : p \in DOMAIN registry}

\* C1: when the first run fails with a missing-executable error and the
\* install function reports installed: true, the install function has been
\* called exactly once, the registry entry of the provider is a newly
\* constructed instance different from the original one, and exactly one
\* further run is made, against that new instance.
C1_RemediationRetriesOnNewInstance ==
    \A t \in TaskIds :
        HookReported(t, TRUE) =>
            LET c == Frame(t) IN
            /\ c.hooks = 1
            /\ installs = [c.installs0 EXCEPT ![c.provider] = @ + 1]
            /\ Len(c.runs) = 2
            /\ c.runs[1].instance = c.registry0[c.provider]
            /\ c.runs[1].status = "error"
            /\ c.runs[2].instance # c.runs[1].instance
            /\ c.runs[2].instance \notin RegistryInstances(c.registry0)
            /\ c.runs[2].instance.name = c.provider
            /\ providers[c.provider] = c.runs[2].instance
            /\ c.provider_instance = c.runs[2].instance
            /\ \A m \in 1..Len(c.out) :
                   c.out[m].run = 2 => c.out[m].instance = c.runs[2].instance.id

C1_Witness ==
    \E t \in TaskIds :
        /\ Done(t) /\ HookReported(t, TRUE) /\ Frame(t).status = "ok"
        /\ Len(Frame(t).runs) = 2 /\ Frame(t).runs[2].invocations >= 1
        /\ Len(Frame(t).out) >= 1

C3_OriginalErrorPropagates ==
    \A t \in TaskIds :
        (Done(t) /\ HookReported(t, FALSE)) => Frame(t).error = Frame(t).raised

\* C4: remediation is applied at most once per call: when the retry after a
\* successful remediation fails, that second error is propagated unchanged
\* and the install function is not called again, even if the second error
\* is again a missing-executable error.
C4_RemediationAtMostOnce ==
    \A t \in TaskIds :
        LET c == Frame(t) IN
        /\ c.hooks <= 1
        /\ Len(c.runs) <= 2
        /\ (Done(t) /\ Len(c.runs) = 2 /\ c.runs[2].status = "error") =>
              /\ c.status = "error"
              /\ c.error = c.run_error
              /\ c.error.at = <<t, 2, c.attempt_number>>
              /\ c.error.cause = <<>>
              /\ c.hooks = 1
              /\ installs = [c.installs0 EXCEPT ![c.provider] = @ + 1]

C4_Witness ==
    \E t \in TaskIds :
        /\ Done(t) /\ Len(Frame(t).runs) = 2 /\ Frame(t).runs[2].status = "error"
        /\ IsCliMissingError(Frame(t).error)
        /\ Frame(t).error.type = "FileNotFoundError"

\* C5: when the resolved provider is not a key of the registry, the call
\* fails at once with the "Unknown provider" provider error: no adapter is
\* invoked, the install function is not called, nothing is retried and the
\* registry is unchanged.
C5_UnknownProviderFailsAtOnce ==
    \A t \in TaskIds :
        (Began(t) /\ Frame(t).provider \notin DOMAIN Frame(t).registry0) =>
            LET c == Frame(t) IN
            /\ c.pc = "done" /\ c.status = "error"
            /\ c.error.type = "ProviderError"
            /\ c.error.provider = c.provider
            /\ c.error.msg[1] = "Unknown provider: "
            /\ c.runs = <<>> /\ c.run = 0
            /\ c.hooks = 0
            /\ installs = c.installs0
            /\ c.out = <<>>
            /\ providers = c.registry0
            /\ serial = c.serial0

C5_Witness ==
    \E t \in TaskIds :
        /\ Done(t) /\ Frame(t).provider = CODEX /\ CODEX \notin DOMAIN providers
        /\ Frame(t).error.type = "ProviderError"

\* the options disable the retries, in the words of the claims
NoRetries(options) == options.retry_count <= 0 \/ options.no_retry
\* the retryable set, in the words of the claims: provider error, Claif
\* timeout error, connection error (and its subclasses), generic timeout
RetryableKinds ==
    {"ProviderError", "ClaifTimeoutError", "ConnectionError", "ConnectionRefusedError",
     "TimeoutError"}
\* every failed attempt of the run has been counted: the raw call is not in flight
AttemptsEnded(r) == r.raising + r.empty = r.invocations
\* the last n messages delivered are those of the attempt in progress, in order
TailIsAttempt(c) ==
    /\ Len(c.out) >= c.nmsg
    /\ \A k \in 1..c.nmsg :
           c.out[Len(c.out) - c.nmsg + k] =
               [instance |-> c.provider_instance.id, run |-> c.run,
                attempt |-> c.attempt_number, k |-> k]

\* C6: with retries disabled (retry_count <= 0 or no_retry), BaseProvider.query
\* invokes the raw call exactly once, and an error it raises, of any type,
\* reaches the caller as that exact error.
C6_NoRetrySingleInvocation ==
    \A t \in TaskIds :
        LET c == Frame(t) IN
        (c.run >= 1 /\ NoRetries(c.options)) =>
            /\ c.pc # "sleep"
            /\ c.attempt_number = 1
            /\ \A i \in 1..Len(c.runs) :
                   /\ c.runs[i].invocations = 1
                   /\ c.runs[i].empty = 0
                   /\ c.runs[i].status = "error" <=> c.runs[i].raising = 1
            /\ LastRun(t).status = "error" =>
                   /\ c.run_error = c.raised
                   /\ c.raised.at = <<t, c.run, 1>>
                   /\ c.raised.type \in AdapterErrorTypes
                   /\ c.raised.cause = <<>>

C6_Witness ==
    \E t \in TaskIds :
        /\ Done(t) /\ Frame(t).options.no_retry /\ Frame(t).options.retry_count = 2
        /\ Frame(t).raised.type = "ConnectionError"
        /\ Frame(t).error = Frame(t).raised
        /\ LastRun(t).invocations = 1

\* C7: with retries enabled and retry_count = r, when the raw call raises
\* retryable errors on attempts 1..k-1 and yields at least one message on
\* attempt k <= r, BaseProvider.query makes exactly k invocations, delivers
\* the messages of attempt k and ends without error; every k up to r is
\* reached, because a retryable failure before attempt r is followed by
\* another attempt.
C7_SucceedsOnAttemptK ==
    \A t \in TaskIds :
        LET c == Frame(t) IN
        (c.run >= 1 /\ ~NoRetries(c.options)) =>
            /\ LastRun(t).status = "ok" =>
                   /\ c.attempt_number \in 1..c.options.retry_count
                   /\ LastRun(t).invocations = c.attempt_number
                   /\ LastRun(t).raising + LastRun(t).empty = c.attempt_number - 1
                   /\ c.nmsg >= 1
                   /\ TailIsAttempt(c)
                   /\ c.pc = "done" /\ c.status = "ok" /\ c.error = NoErr
            /\ (LastRun(t).status = "error" /\ c.raised.type \in RetryableKinds) =>
                   c.attempt_number = c.options.retry_count
            /\ c.pc = "sleep" => c.attempt_number < c.options.retry_count

C7_Witness ==
    \E t \in TaskIds :
        /\ Done(t) /\ Frame(t).status = "ok"
        /\ Frame(t).options.retry_count = 3 /\ ~Frame(t).options.no_retry
        /\ Frame(t).run = 1 /\ Frame(t).attempt_number = 3
        /\ LastRun(t).invocations = 3 /\ LastRun(t).raising = 2

\* C8: with retries enabled, an attempt in which the raw call ends without
\* raising and without a message is a failed, retryable attempt; when all
\* retry_count attempts are empty, exactly retry_count invocations are made
\* and the call raises the "no response received" provider error.
C8_EmptyAttemptIsRetried ==
    \A t \in TaskIds :
        LET c == Frame(t) IN
        (c.run >= 1 /\ ~NoRetries(c.options)) =>
            /\ LastRun(t).status = "ok" => c.nmsg >= 1
            /\ (LastRun(t).empty >= 1 /\ LastRun(t).status = "running"
                    /\ AttemptsEnded(LastRun(t))) => c.pc = "sleep"
            /\ LastRun(t).empty = c.options.retry_count =>
                   /\ LastRun(t).invocations = c.options.retry_count
                   /\ LastRun(t).status = "error"
                   /\ c.pc = "done" /\ c.status = "error"
                   /\ c.run_error.type = "ProviderError"
                   /\ c.run_error.provider = c.provider_instance.name
                   /\ c.run_error.msg =
                        <<"No response received from provider after successful query execution.">>
                   /\ c.error = c.run_error

C8_Witness ==
    \E t \in TaskIds :
        /\ Done(t) /\ Frame(t).options.retry_count = 3 /\ ~Frame(t).options.no_retry
        /\ LastRun(t).empty = 3 /\ LastRun(t).invocations = 3
        /\ Frame(t).error.type = "ProviderError" /\ Frame(t).out = <<>>

\* C9: with retries enabled, an error of the raw call whose type is outside
\* the retryable set is not retried: no invocation follows it and it is
\* propagated at once, whatever the remaining attempt budget.
C9_NonRetryableNotRetried ==
    \A t \in TaskIds :
        LET c == Frame(t) IN
        (c.run >= 1 /\ ~NoRetries(c.options)
            /\ c.raised.type \in {"FileNotFoundError", "RuntimeError", "ValueError"}) =>
            /\ c.pc = "done"
            /\ LastRun(t).status = "error"
            /\ c.run_error = c.raised
            /\ c.raised.at = <<t, c.run, c.attempt_number>>
            /\ LastRun(t).invocations = c.attempt_number
            /\ LastRun(t).raising + LastRun(t).empty = c.attempt_number

C9_Witness ==
    \E t \in TaskIds :
        /\ Done(t) /\ Frame(t).options.retry_count = 3 /\ ~Frame(t).options.no_retry
        /\ Frame(t).attempt_number = 1 /\ LastRun(t).invocations = 1
        /\ Frame(t).raised.type = "RuntimeError"
        /\ Frame(t).error = Frame(t).raised

\* C10: when all retry_count attempts fail with retryable errors, exactly
\* retry_count invocations have been made and the error that reaches the
\* caller is the error of the last attempt itself, not a retry wrapper and
\* not the error of an earlier attempt.
C10_LastErrorPropagates ==
    \A t \in TaskIds :
        LET c == Frame(t) IN
        (c.run >= 1 /\ ~NoRetries(c.options) /\ LastRun(t).status = "error"
            /\ c.raised.type \in RetryableKinds) =>
            /\ LastRun(t).invocations = c.options.retry_count
            /\ LastRun(t).raising + LastRun(t).empty = c.options.retry_count
            /\ c.attempt_number = c.options.retry_count
            /\ c.run_error = c.raised
            /\ c.run_error.at = <<t, c.run, c.options.retry_count>>
            /\ c.run_error.cause = <<>>

C10_Witness ==
    \E t \in TaskIds :
        /\ Done(t) /\ Frame(t).options.retry_count = 3 /\ ~Frame(t).options.no_retry
        /\ LastRun(t).raising = 3 /\ LastRun(t).invocations = 3
        /\ Frame(t).run_error.type = "ClaifTimeoutError"
        /\ Frame(t).error = Frame(t).run_error

\* messages of errors that say nothing of a missing executable
PlainMessages ==
    {<<"API error">>,
     <<"No response received from provider after successful query execution.">>}

\* C20: when the run fails with an error that is not classified as a
\* missing executable, ClaifClient.query raises that very error to the
\* caller: the install function is not called, no further run is made and
\* the registry is unchanged.
C20_OtherErrorPropagatesRaw ==
    \A t \in TaskIds :
        LET c == Frame(t) IN
        (Len(c.runs) >= 1 /\ c.runs[1].status = "error"
                          /\ c.runs[1].message \in PlainMessages) =>
            /\ c.pc = "done" /\ c.status = "error"
            /\ c.error = c.run_error
            /\ c.error = c.raised
            /\ c.error.msg = c.runs[1].message
            /\ c.error.at = <<t, 1, c.attempt_number>>
            /\ c.error.cause = <<>>
            /\ c.hooks = 0
            /\ Len(c.runs) = 1
            /\ providers = c.registry0
            /\ installs = c.installs0
            /\ serial = c.serial0

C20_Witness ==
    \E t \in TaskIds :
        /\ Done(t) /\ Frame(t).error.type = "RuntimeError"
        /\ Frame(t).error.msg = <<"API error">>
        /\ Frame(t).runs[1].raising = 1
        /\ Frame(t).hooks = 0

\* the options the method works with: the caller's, or the defaults
GivenOptions == IF op.absent THEN DefaultOptions ELSE op.given

\* C19: query_random selects a provider from the present key set of the
\* registry (the selection is drawn from all the keys and from nothing
\* else), writes the selection into the provider field of the caller's
\* options object, where it stays after the call, and runs the
\* single-provider path, remediation included, for that provider only.
C19_RandomSelectsWritesRuns ==
    op.kind = "random" =>
        LET c == Frame("main") IN
        /\ op.candidates = DOMAIN c.registry0
        /\ op.selected \in DOMAIN c.registry0
        /\ op.heap = [o \in {"options"} |-> [GivenOptions EXCEPT !.provider = op.selected]]
        /\ Began("main")
        /\ c.options_ref = "options"
        /\ c.options = op.heap["options"]
        /\ c.provider = op.selected
        /\ c.run >= 1
        /\ op.invoked = {op.selected}
        /\ \A i \in 1..Len(c.runs) : c.runs[i].instance.name = op.selected
        /\ \A q \in Provider \ {op.selected} :
               /\ installs[q] = c.installs0[q]
               /\ providers[q] = c.registry0[q]
        /\ installs[op.selected] = c.installs0[op.selected] + c.hooks

C19_Witness ==
    /\ op.kind = "random" /\ Done("main")
    /\ ~op.absent /\ op.given.provider = CODEX
    /\ op.selected = GEMINI
    /\ op.heap["options"].provider = GEMINI
    /\ Frame("main").status = "ok"
    /\ Frame("main").hooks = 1 /\ Len(Frame("main").runs) = 2

\* the providers at the places from..to of the try order
OrderSet(from, to) == {op.providers_to_try[j] : j \in from..to}

\* C11: in query_with_rotation, as soon as the single-provider path of
\* the provider in turn completes successfully (its own remediation
\* included), the rotation ends in success: no later provider is invoked.
\* A later provider is tried only after every earlier one has failed, and
\* the messages of the provider that succeeded are the caller's.
C11_RotationStopsAtSuccess ==
    op.kind = "rotation" =>
        LET c == Frame("main")
            n == Len(op.providers_tried)
        IN  /\ \A i \in 1..Len(op.outcomes) :
                   op.outcomes[i] = "ok" => (i = n /\ op.status = "ok")
            /\ (c.pc = "done" /\ c.status = "ok") => op.status = "ok"
            /\ op.status = "running" =>
                   (Len(op.outcomes) = n - 1 /\ c.pc \in {"inflight", "sleep"})
            /\ op.status = "ok" =>
                   /\ c.pc = "done" /\ c.status = "ok"
                   /\ Len(op.outcomes) = n /\ op.outcomes[n] = "ok"
                   /\ c.provider = op.providers_to_try[n]
                   /\ op.invoked \subseteq OrderSet(1, n)
                   /\ \A k \in 1..Len(c.out) :
                          \E i \in 1..Len(c.runs) :
                              /\ c.out[k].instance = c.runs[i].instance.id
                              /\ c.runs[i].instance.name = c.provider
                   /\ \A q \in OrderSet(n + 1, Len(op.providers_to_try)) :
                          /\ q \notin op.invoked
                          /\ installs[q] = c.installs0[q]
                          /\ providers[q] = c.registry0[q]

C11_Witness ==
    /\ op.kind = "rotation" /\ op.status = "ok"
    /\ op.providers_to_try = <<CLAUDE, GEMINI, CODEX>>
    /\ op.providers_tried = <<CLAUDE, GEMINI>>
    /\ op.outcomes = <<"error", "ok">>
    /\ op.invoked = {CLAUDE, GEMINI}
    /\ Frame("main").hooks = 1 /\ Len(Frame("main").runs) = 2
    /\ Len(Frame("main").out) >= 1

\* C12: query_with_rotation raises an error to the caller only when the
\* last provider of the try order has failed.  The error is one aggregate
\* provider error that names every provider tried, in order, and has the
\* error of the last provider as its cause; the failure of a provider that
\* is not the last is never raised.
C12_AggregateErrorAfterLast ==
    op.kind = "rotation" =>
        LET c == Frame("main")
            last == Len(op.providers_to_try)
        IN  /\ op.status = "error" <=>
                   (Len(op.outcomes) = last /\ op.outcomes[last] = "error")
            /\ op.status = "error" =>
                   /\ op.providers_tried = op.providers_to_try
                   /\ \A i \in 1..last : op.outcomes[i] = "error"
                   /\ c.pc = "done" /\ c.status = "error"
                   /\ c.provider = op.providers_to_try[last]
                   /\ op.error.type = "ProviderError"
                   /\ op.error.provider = "all"
                   /\ op.error.msg = <<"All providers failed after retry attempts">>
                   /\ op.error.cause = <<c.error>>
                   /\ op.details.providers_tried = op.providers_to_try
                   /\ op.details.last_error = Str(c.error)
            /\ op.status # "error" => (op.error = NoErr /\ op.details = NoDetails)

C12_Witness ==
    /\ op.kind = "rotation" /\ op.status = "error"
    /\ op.details.providers_tried = <<GEMINI, CLAUDE, CODEX>>
    /\ op.error.cause[1].type = "ProviderError"
    /\ op.error.cause[1].provider = CODEX
    /\ op.error.cause[1].cause[1].type = "FileNotFoundError"
    /\ installs = [p \in Provider |-> 1]

\* C13: the try order of a rotation pass is the primary provider
\* (options.provider if set, else CLAUDE) followed by every other key of
\* the registry in the order of the registry; every provider is in it at
\* most once, and the providers are tried in that order, so the
\* single-provider path of no provider is entered twice in one pass.
C13_TryOrder ==
    op.kind = "rotation" =>
        LET order == op.providers_to_try
            primary == IF GivenOptions.provider # None THEN GivenOptions.provider ELSE CLAUDE
        IN  /\ order[1] = primary
            /\ SubSeq(order, 2, Len(order)) =
                   SelectSeq(<<CLAUDE, GEMINI, CODEX>>,
                             LAMBDA p : p \in DOMAIN providers /\ p # primary)
            /\ \A i, j \in 1..Len(order) : order[i] = order[j] => i = j
            /\ op.idx \in 1..Len(order)
            /\ op.providers_tried = SubSeq(order, 1, op.idx)
            /\ \A i, j \in 1..Len(op.providers_tried) :
                   op.providers_tried[i] = op.providers_tried[j] => i = j
            /\ Frame("main").provider = order[op.idx]

C13_Witness ==
    /\ op.kind = "rotation"
    /\ op.given.provider = CODEX
    /\ op.providers_tried = <<CODEX, CLAUDE, GEMINI>>
    /\ Frame("main").pc = "inflight"
    /\ Frame("main").provider = GEMINI

\* the task of provider p of query_all has ended
Ended(p) == p \in DOMAIN op.results
\* the keys the tasks of query_all were made for
AllKeys == {op.keys[i] : i \in 1..Len(op.keys)}
\* the calls of the install function made in the task of p
TaskHooks(p) == IF Ended(p) THEN op.results[p].hooks ELSE Frame(p).hooks
\* the task of p has called the install function and it reported success
TaskInstalled(p) ==
    IF Ended(p) THEN op.results[p].installed
    ELSE Frame(p).hooks >= 1 /\ Frame(p).install_result.installed

\* C14: in query_all the failure of the task of one provider neither
\* aborts nor alters the others: query_all raises nothing, the step that
\* ends a task leaves the frames and the results of the other tasks as
\* they are, a provider whose path raised is mapped to the empty list and
\* every other provider to the very messages its path passed on, and the
\* result has one entry per registered provider.
C14_FailureIsolated ==
    [][ op'.kind = "all" =>
          /\ op'.status # "error" /\ op'.error = NoErr
          /\ \A p \in Provider :
                 (op.kind = "all" /\ p \notin DOMAIN op.results /\ p \in DOMAIN op'.results) =>
                    /\ Frame(p).pc = "inflight"
                    /\ op'.results[p].status \in {"ok", "error"}
                    /\ op'.results[p].status = "error" => op'.results[p].messages = <<>>
                    /\ op'.results[p].status = "ok" =>
                           op'.results[p].messages \in {Frame(p).out}
                    /\ \A q \in Provider \ {p} :
                           /\ calls'[q] = calls[q]
                           /\ q \in DOMAIN op.results =>
                                  (q \in DOMAIN op'.results /\ op'.results[q] = op.results[q])
          /\ op'.yielded # <<>> =>
                 /\ DOMAIN op'.yielded[1] = DOMAIN providers
                 /\ \A p \in DOMAIN providers :
                        op'.yielded[1][p] = op'.results[p].messages
      ]_vars

C14_Witness ==
    /\ op.kind = "all" /\ op.status = "ok"
    /\ op.results[CLAUDE].status = "error"
    /\ op.yielded[1][CLAUDE] = <<>>
    /\ op.results[GEMINI].status = "ok" /\ Len(op.yielded[1][GEMINI]) >= 1
    /\ op.results[CODEX].status = "ok" /\ Len(op.yielded[1][CODEX]) >= 1

\* C15: query_all yields exactly one result, and only after the task of
\* every provider has ended; the keys of the result are the keys of the
\* registry; no partial mapping is ever exposed.
C15_OneResultAfterAllTasks ==
    op.kind = "all" =>
        /\ Len(op.yielded) <= 1
        /\ op.status = "ok" <=> Len(op.yielded) = 1
        /\ op.status \in {"running", "ok"}
        /\ Len(op.yielded) = 1 =>
               /\ DOMAIN op.yielded[1] = DOMAIN providers
               /\ DOMAIN op.yielded[1] = DOMAIN op.registry0
               /\ DOMAIN op.yielded[1] = AllKeys
               /\ \A p \in DOMAIN providers :
                      /\ Ended(p) /\ Frame(p).pc = "ended"
                      /\ op.yielded[1][p] = op.results[p].messages

C15_Witness ==
    /\ op.kind = "all" /\ Len(op.yielded) = 1
    /\ DOMAIN op.yielded[1] = {CLAUDE, GEMINI, CODEX}
    /\ \A p \in Provider : op.results[p].status = "ok" /\ Len(op.yielded[1][p]) >= 1

\* C16: query_all runs the queries of the providers concurrently: no task
\* waits for the end of another one.  The step in which the tasks begin
\* leaves the raw calls of all registered providers in flight at the same
\* time, and from then on every task is in flight or has ended, in
\* whatever order.
C16_TasksRunConcurrently ==
    [][ op'.kind = "all" =>
          /\ (op.nstarted = 0 /\ op'.nstarted >= 1) =>
                /\ \A p \in DOMAIN providers : calls'[p].pc = "inflight"
                /\ op'.invoked = DOMAIN providers
                /\ op'.results = NoResults
          /\ op'.nstarted >= 1 =>
                /\ op'.nstarted = Len(op'.keys)
                /\ {op'.keys[i] : i \in 1..Len(op'.keys)} = DOMAIN providers
                /\ \A p \in DOMAIN providers :
                       \/ calls'[p].pc = "inflight" /\ p \notin DOMAIN op'.results
                       \/ calls'[p].pc = "ended" /\ p \in DOMAIN op'.results
      ]_vars

\* the last task of the list has ended while the first two are in flight
C16_Witness ==
    /\ op.kind = "all" /\ op.status = "running"
    /\ Ended(CODEX) /\ op.results[CODEX].status = "ok"
    /\ Frame(CLAUDE).pc = "inflight" /\ Len(Frame(CLAUDE).out) = 1
    /\ Frame(GEMINI).pc = "inflight" /\ Len(Frame(GEMINI).out) = 1
    /\ op.invoked = Provider

\* C17: in query_all every task works on a fresh copy of the caller's
\* options in which only the provider differs; the caller's options
\* object, its provider field included, is the same during and after the
\* call as before; what is written to the copy of one task is in no
\* other copy.
C17_TasksCopyOptions ==
    op.kind = "all" =>
        /\ op.heap["options"] = GivenOptions
        /\ DOMAIN op.heap = {"options"} \cup {op.keys[i] : i \in 1..op.nstarted}
        /\ \A p \in DOMAIN op.heap \ {"options"} :
               /\ op.heap[p] = [GivenOptions EXCEPT !.provider = p]
               /\ ~Ended(p) =>
                      /\ Frame(p).options_ref = p
                      /\ Frame(p).options = op.heap[p]
                      /\ Frame(p).provider = p

C17_Witness ==
    /\ op.kind = "all" /\ op.status = "ok"
    /\ ~op.absent /\ op.given.provider = GEMINI
    /\ op.heap["options"].provider = GEMINI
    /\ op.heap[CLAUDE].provider = CLAUDE
    /\ op.heap[GEMINI].provider = GEMINI
    /\ op.heap[CODEX].provider = CODEX

\* C18: in query_all every task runs the single-provider path with its
\* own remediation: the install function of a provider is called by the
\* task of that provider only, and once at most; the remediation of P
\* replaces the registry entry of P and no other; what the remediation of
\* P comes to has no effect on the entries and install calls of the others.
C18_TasksRemediateAlone ==
    op.kind = "all" =>
        \A p \in Provider :
            /\ TaskHooks(p) \in {0, 1}
            /\ installs[p] = op.installs0[p] + TaskHooks(p)
            /\ TaskInstalled(p) =>
                   /\ TaskHooks(p) = 1
                   /\ providers[p].name = p
                   /\ \A q \in Provider : providers[p].id # op.registry0[q].id
                   /\ \A q \in Provider \ {p} : providers[p].id # providers[q].id
            /\ ~TaskInstalled(p) => providers[p] = op.registry0[p]
            /\ (~Ended(p) /\ Frame(p).run = 2) =>
                   /\ TaskInstalled(p)
                   /\ Frame(p).provider_instance = providers[p]

C18_Witness ==
    /\ op.kind = "all" /\ op.status = "ok"
    /\ op.results[CLAUDE].hooks = 1 /\ op.results[CLAUDE].installed
    /\ op.results[CLAUDE].status = "ok"
    /\ op.results[GEMINI].hooks = 1 /\ ~op.results[GEMINI].installed
    /\ op.results[GEMINI].status = "error"
    /\ op.results[CODEX].hooks = 0 /\ op.results[CODEX].status = "ok"
    /\ installs = [p \in Provider |-> IF p = CODEX THEN 0 ELSE 1]
    /\ providers[GEMINI] = op.registry0[GEMINI]
    /\ providers[CLAUDE] # op.registry0[CLAUDE]

\* C21: when the run fails with a missing-executable error and no install
\* function is found for the provider, the call fails with the provider
\* error "<Provider> CLI not found and no auto-install available." that
\* names the provider and has the original error as its cause; no install
\* function is called, no further run is made and the registry is as it
\* was.
C21_NoInstallFunctionRaises ==
    \A t \in TaskIds :
        LET c == Frame(t) IN
        (c.lookup = "mock_none" /\ c.run >= 1 /\ c.runs[1].status = "error"
            /\ IsCliMissingError(c.run_error)) =>
            /\ c.pc = "done" /\ c.status = "error"
            /\ c.error.type = "ProviderError"
            /\ c.error.provider = c.provider
            /\ c.error.msg = <<Title(c.provider), " CLI not found and no auto-install available.">>
            /\ c.error.cause = <<c.run_error>>
            /\ c.run_error = c.raised
            /\ c.run = 1 /\ Len(c.runs) = 1
            /\ c.runs[1].invocations = c.raised.at[3]
            /\ c.hooks = 0
            /\ installs = c.installs0
            /\ providers = c.registry0
            /\ serial = c.serial0

C21_Witness ==
    /\ Done("main") /\ Frame("main").lookup = "mock_none"
    /\ Frame("main").provider = GEMINI
    /\ Frame("main").raised.type = "FileNotFoundError"
    /\ Frame("main").error.type = "ProviderError"
    /\ Frame("main").error.cause = <<Frame("main").raised>>

\* C22: a successful remediation of provider P replaces the registry entry
\* of P by a newly constructed instance and touches no other entry: a step
\* that changes the registry changes the entry of one key, the provider of
\* the call whose install function has reported installed: true, to an
\* instance no one has held before; and a call that begins resolves its
\* provider to the entry the registry holds at that moment, so a call made
\* after the remediation runs on the new instance and none on the
\* discarded one.
C22_RemediationReplacesOneEntry ==
    [][ /\ DOMAIN providers' = DOMAIN providers
        /\ \A P \in DOMAIN providers :
               providers'[P] # providers[P] =>
                  /\ providers'[P].name = P
                  /\ serial' = serial + 1 /\ providers'[P].id = serial'
                  /\ \A Q \in DOMAIN providers \ {P} : providers'[Q] = providers[Q]
                  /\ \E t \in TaskIds :
                         /\ calls[t].provider = P /\ calls'[t].provider = P
                         /\ calls[t].hooks = 0 /\ calls'[t].hooks = 1
                         /\ calls'[t].install_result.installed
                         /\ calls'[t].provider_instance = providers'[P]
        /\ \A t \in TaskIds :
               (calls[t].pc = "idle" /\ calls'[t].pc = "inflight") =>
                  /\ calls'[t].run = 1
                  /\ calls'[t].provider_instance = providers[calls'[t].provider]
                  /\ calls'[t].runs[1].instance = providers[calls'[t].provider]
                  /\ providers' = providers
      ]_vars

\* a call made after the call that remediated CLAUDE has returned
C22_Witness ==
    /\ op.kind = "shared" /\ ncalls = 2
    /\ Frame("main").pc = "idle"
    /\ Frame("second").pc = "inflight" /\ Frame("second").provider = CLAUDE
    /\ Frame("second").run = 1 /\ Frame("second").hooks = 0
    /\ Frame("second").registry0[CLAUDE].id = 4
    /\ Frame("second").provider_instance = providers[CLAUDE]
    /\ providers[CLAUDE].id = 4 /\ providers[GEMINI].id = 2 /\ providers[CODEX].id = 3

\* an adapter instance that is wholly constructed: it has the class of
\* provider P and an identity
Complete(inst, P) == inst.name = P /\ inst.id \in 1..serial

\* C29: the registry changes only by the replacement of the whole value of
\* one key, and the replacement is atomic for the calls that run at the
\* same time: the registry has a wholly constructed instance for every
\* key at every moment, and the instance a call holds is wholly
\* constructed: in its first run it is the entry the registry had when the
\* call began, whatever another call has done to that entry since.
C29_ReplacementIsAtomic ==
    /\ DOMAIN providers = Provider
    /\ \A P \in Provider : Complete(providers[P], P)
    /\ \A t \in TaskIds :
           LET c == Frame(t) IN
           (Began(t) /\ c.run >= 1) =>
               /\ Complete(c.provider_instance, c.provider)
               /\ \A P \in Provider : Complete(c.registry0[P], P)
               /\ c.run = 1 => c.provider_instance = c.registry0[c.provider]
               /\ c.provider_instance.id <= providers[c.provider].id

\* "second" read the entry of CLAUDE, then "main" remediated CLAUDE
C29_Witness ==
    /\ op.kind = "shared"
    /\ Frame("main").pc = "inflight" /\ Frame("second").pc = "inflight"
    /\ Frame("main").provider = CLAUDE /\ Frame("second").provider = CLAUDE
    /\ Frame("main").run = 2 /\ Frame("second").run = 1
    /\ Frame("second").provider_instance.id = 1
    /\ Frame("main").provider_instance.id = 4
    /\ providers[CLAUDE] = Frame("main").provider_instance

\* C23: ClaifClient.query resolves its target as options.provider when it
\* is set and as CLAUDE when it is unset or when no options are passed,
\* and it invokes the adapter registered for that provider and no other:
\* every run of the call is made on an instance of the class of that
\* provider, the first one on the entry the registry had for it.
C23_ResolvesAndInvokesTarget ==
    (op.kind = "query" /\ Began("main")) =>
        LET c == Frame("main")
            target == IF op.absent THEN CLAUDE
                      ELSE IF op.given.provider = None THEN CLAUDE
                      ELSE op.given.provider
        IN  /\ c.provider = target
            /\ op.invoked \subseteq {target}
            /\ c.run >= 1 => op.invoked = {target}
            /\ \A i \in 1..Len(c.runs) : c.runs[i].instance.name = target
            /\ c.run >= 1 => c.runs[1].instance = c.registry0[target]
            /\ \A m \in 1..Len(c.out) : c.out[m].instance = c.runs[c.out[m].run].instance.id

C23_Witness ==
    /\ op.kind = "query" /\ op.absent /\ Done("main")
    /\ Frame("main").provider = CLAUDE /\ op.invoked = {CLAUDE}
    /\ Frame("main").status = "ok" /\ Len(Frame("main").out) >= 1
    /\ Frame("main").out[1].instance = 1

\* C30: ClaifClient.query hands the options of the caller to the adapter
\* with no field modified: the adapter receives the very object the
\* method holds, whose fields are those of the caller (the defaults when
\* no options were passed), in every run of the call; when the provider is
\* unset, CLAUDE is used to resolve the adapter and the provider field the
\* adapter sees is still unset.
C30_OptionsReachAdapterUnmodified ==
    (op.kind = "query" /\ Began("main")) =>
        LET c == Frame("main") IN
        /\ c.options_ref = "options"
        /\ DOMAIN op.heap = {"options"}
        /\ op.heap["options"] = GivenOptions
        /\ c.options = GivenOptions
        /\ ~op.absent =>
               /\ c.options.temperature = op.given.temperature
               /\ c.options.max_tokens = op.given.max_tokens
               /\ c.options.verbose = op.given.verbose
               /\ c.options.provider = op.given.provider
        /\ (op.absent \/ op.given.provider = None) =>
               /\ c.provider = CLAUDE
               /\ c.options.provider = None

\* the adapter of CLAUDE has run with options that leave the provider
\* unset and set the other fields
C30_Witness ==
    /\ op.kind = "query" /\ ~op.absent /\ Done("main") /\ Frame("main").status = "ok"
    /\ op.given.provider = None /\ op.given.temperature = "0.5"
    /\ op.given.max_tokens = "1000" /\ op.given.verbose
    /\ Frame("main").provider = CLAUDE /\ op.invoked = {CLAUDE}
    /\ Frame("main").options.provider = None
    /\ Frame("main").options.temperature = "0.5"

\* C24: when the provider call succeeds on its first attempt, the messages
\* ClaifClient.query delivers to the caller are the messages the adapter
\* emitted, in the order of emission: none is dropped, duplicated or
\* moved; the same is true of the messages delivered while that attempt
\* is in flight.
C24_MessagesDeliveredInOrder ==
    \A t \in TaskIds :
        LET c == Frame(t) IN
        (Began(t) /\ c.run = 1 /\ c.attempt_number = 1 /\ c.status # "error"
            /\ c.pc \in {"inflight", "done"}) =>
            /\ Len(c.out) = c.nmsg
            /\ \A k \in 1..Len(c.out) :
                   c.out[k] = [instance |-> c.registry0[c.provider].id, run |-> 1,
                               attempt |-> 1, k |-> k]
            /\ c.status = "ok" => (c.runs[1].invocations = 1 /\ c.hooks = 0)

C24_Witness ==
    /\ Done("main") /\ Frame("main").status = "ok"
    /\ Frame("main").run = 1 /\ Frame("main").attempt_number = 1
    /\ Len(Frame("main").out) = 2
    /\ Frame("main").out[1].k = 1 /\ Frame("main").out[2].k = 2
    /\ Frame("main").options.retry_count = 2

\* the types of the content blocks
BlockTypes == {"text", "tool_use", "tool_result"}

\* C25: the construction of a Message normalizes the content: given the
\* string s, the content is the list of the one text block of s; given a
\* list of blocks, the content is that list; so the content of a
\* constructed Message is a list of blocks, and normalizing a normalized
\* content changes nothing.
C25_ContentNormalized ==
    (applied.name = "Message" /\ applied.post_inits >= 1) =>
        /\ applied.given.py = "str" =>
               applied.constructed = [py |-> "list",
                                      items |-> <<[type |-> "text", text |-> applied.given.value]>>]
        /\ applied.given.py = "list" => applied.constructed = applied.given
        /\ applied.constructed.py = "list"
        /\ \A i \in 1..Len(applied.constructed.items) :
               applied.constructed.items[i].type \in BlockTypes
        /\ applied.content = applied.constructed

\* a Message made of the string "Hello" has been normalized twice
C25_Witness ==
    /\ applied.name = "Message" /\ applied.post_inits = 2
    /\ applied.given.py = "str" /\ applied.given.value = "Hello"
    /\ Len(applied.content.items) = 1 /\ applied.content.items[1].text = "Hello"

\* the indicators, in the words of the claim
IndicatorList ==
    {"command not found", "no such file or directory",
     "is not recognized as an internal or external command", "cannot find", "not found",
     "executable not found", "permission denied", "filenotfounderror",
     "claude not found", "gemini not found", "codex not found"}
\* txt has the lower-case text ind in it, whatever the case of its letters
ContainsIgnoringCase(txt, ind) ==
    \E i \in 0..(Len(txt) - Len(ind)) : \A j \in 1..Len(ind) : Lower(txt[i + j]) = ind[j]

\* C26: _is_cli_missing_error says true exactly when the text of the error
\* has one of the indicators in it, the case of the letters ignored and
\* the type of the exception ignored; the texts "API error" and
\* "Connection timeout" are classified false.
C26_ClassifiesByIndicator ==
    (applied.name = "_is_cli_missing_error" /\ applied.called) =>
        /\ applied.result <=>
               \E ind \in IndicatorList : ContainsIgnoringCase(Str(applied.error), Chars[ind])
        /\ applied.error.msg \in {<<"API error">>, <<"Connection timeout">>} => ~applied.result
        /\ applied.error.msg \in {<<"COMMAND NOT FOUND">>, <<"Permission Denied">>,
                                     <<"No such file or directory">>} => applied.result

C26_Witness ==
    /\ applied.name = "_is_cli_missing_error" /\ applied.called /\ applied.result
    /\ applied.error.type = "ValueError"
    /\ applied.error.msg = <<"COMMAND NOT FOUND">>

\* the delay the claim's formula gives after failed attempt n:
\* retry_delay * 2^(n-1), capped at retry_delay * 10, not below retry_delay
ClaimedDelay(retry_delay, n) ==
    Greater(retry_delay, Lesser(retry_delay * 2 ^ (n - 1), retry_delay * 10))

Waiting == applied.name = "wait_exponential"

\* for a positive retry_delay the delays never decrease from one failed
\* attempt to the next and all lie between retry_delay and retry_delay * 10
PositiveDelaysGrowInRange ==
    applied.retry_delay > 0 =>
        /\ \A n \in 1..Len(applied.waits) :
               /\ applied.waits[n] >= applied.retry_delay
               /\ applied.waits[n] <= applied.retry_delay * 10
        /\ \A n \in 1..(Len(applied.waits) - 1) : applied.waits[n] <= applied.waits[n + 1]

\* C27 as stated: for every retry_delay the delay after failed attempt n
\* is retry_delay * 2^(n-1), capped at retry_delay * 10 and never below
\* retry_delay, numbering the attempts from 1; for a positive retry_delay
\* the delays never decrease and lie within [retry_delay, retry_delay * 10].
C27_Original ==
    Waiting =>
        /\ \A n \in 1..Len(applied.waits) :
               /\ applied.waits[n] = ClaimedDelay(applied.retry_delay, n)
               /\ applied.waits[n] <= applied.retry_delay * 10
               /\ applied.waits[n] >= applied.retry_delay
        /\ PositiveDelaysGrowInRange

\* C27: for a retry_delay of zero or more the delay after failed attempt n
\* is retry_delay * 2^(n-1), capped at retry_delay * 10 and never below
\* retry_delay, numbering the attempts from 1; for a negative retry_delay
\* the delay is 0, which is above retry_delay * 10; for a positive
\* retry_delay the delays never decrease and lie within
\* [retry_delay, retry_delay * 10].
C27_DelayDoublesUpToCap ==
    Waiting =>
        /\ \A n \in 1..Len(applied.waits) :
               IF applied.retry_delay >= 0
               THEN /\ applied.waits[n] = ClaimedDelay(applied.retry_delay, n)
                    /\ applied.waits[n] <= applied.retry_delay * 10
                    /\ applied.waits[n] >= applied.retry_delay
               ELSE applied.waits[n] = 0
        /\ PositiveDelaysGrowInRange

\* the delays 3, 6, 12, 24 and then the cap 30, twice
C27_Witness ==
    /\ Waiting
    /\ applied.retry_delay = 3
    /\ applied.waits = <<3, 6, 12, 24, 30, 30>>

RECURSIVE Invocations(_)
\* the invocations of the raw call in all the runs
Invocations(runs) ==
    IF runs = <<>> THEN 0 ELSE runs[1].invocations + Invocations(Tail(runs))

\* the call of task t has been cancelled and has not made way for another
Cancelled(t) == calls[t].cancelled

\* a cancelled call has ended with CancelledError and is neither in an
\* attempt nor in a delay
CancelledCallEnded ==
    \A t \in TaskIds :
        Cancelled(t) =>
            /\ calls[t].pc = "done"
            /\ calls[t].status = "error"
            /\ calls[t].error.type = "CancelledError"

\* after the cancellation the call makes no invocation
NoInvocationAfterCancel ==
    \A t \in TaskIds :
        Cancelled(t) =>
            \/ calls'[t] = IdleCall
            \/ /\ Invocations(calls'[t].runs) = Invocations(calls[t].runs)
               /\ calls'[t].attempt_number = calls[t].attempt_number
               /\ calls'[t].run = calls[t].run

\* C28: when the caller cancels a call while an attempt is in flight, the
\* raw call ends with CancelledError and the call ends with it; when it
\* cancels the call during the delay between two attempts, the call ends
\* with CancelledError; in both cases no attempt is started and the raw
\* call is not invoked after the cancellation.
C28_CancelStopsAttempts ==
    []CancelledCallEnded /\ [][NoInvocationAfterCancel]_vars

\* cancelled during the delay after a failed first attempt
C28_Witness ==
    /\ Cancelled("main")
    /\ calls["main"].pc = "done"
    /\ calls["main"].raised.type = "ProviderError"
    /\ calls["main"].error.type = "CancelledError"
    /\ calls["main"].attempt_number = 1
    /\ Invocations(calls["main"].runs) = 1

\* cancelled while the second attempt is in flight
C28_InFlight ==
    /\ Cancelled("main")
    /\ calls["main"].raised.type = "CancelledError"
    /\ calls["main"].error.type = "CancelledError"
    /\ calls["main"].attempt_number = 2
    /\ Invocations(calls["main"].runs) = 2

\* the elements of a list
Elements(list) == {list[i] : i \in 1..Len(list)}

ClassesOf(message) == {e.type : e \in {x \in BudgetErrors : <<x.text>> = message}}

C32_SingleAttempt ==
    LET c == Frame("main")
    IN  /\ c.options.retry_count = 2 /\ ~c.options.no_retry
        /\ c.hooks = 1
        /\ c.runs[1].message = <<"No such file or directory">>
        /\ c.runs[1].invocations = 1

\* the messages of out that attempt a of run r emitted
OfAttempt(out, r, a) == SelectSeq(out, LAMBDA m : m.run = r /\ m.attempt = a)

\* m was emitted before n, or by the same attempt
NotAfter(m, n) == m.run < n.run \/ (m.run = n.run /\ m.attempt <= n.attempt)

\* the stream is made of the messages of the attempts, in the order of
\* the attempts, and the messages of every attempt are its first, second,
\* ... message, in this order; the attempt in flight has all its
\* messages in the stream
StreamIsConcatenation ==
    \A t \in TaskIds :
        LET c == Frame(t) IN
        Began(t) =>
            /\ \A i, j \in 1..Len(c.out) : i <= j => NotAfter(c.out[i], c.out[j])
            /\ \A r \in 1..2, a \in 1..(MaxRetry + 1) :
                   LET part == OfAttempt(c.out, r, a)
                   IN  /\ \A k \in 1..Len(part) :
                              /\ part[k].k = k
                              /\ part[k].instance = c.runs[r].instance.id
                       /\ (r = c.run /\ a = c.attempt_number) => Len(part) = c.nmsg
            /\ \A i \in 1..Len(c.out) :
                   /\ c.out[i].run \in 1..c.run
                   /\ c.out[i].run = c.run => c.out[i].attempt \in 1..c.attempt_number

\* a message is delivered in the step in which the raw call yields it and
\* the stream loses nothing in any other step of the call: not when the
\* attempt fails, not in the delay, not when the next attempt begins
NothingHeldBackOrRetracted ==
    \A t \in TaskIds :
        (calls[t].pc # "idle" /\ calls'[t].pc # "idle") =>
            IF calls[t].pc = "inflight" /\ calls'[t].pc = "inflight"
               /\ calls'[t].run = calls[t].run
               /\ calls'[t].attempt_number = calls[t].attempt_number
               /\ calls'[t].nmsg = calls[t].nmsg + 1
            THEN calls'[t].out =
                     Append(calls[t].out,
                            [instance |-> calls[t].provider_instance.id, run |-> calls[t].run,
                             attempt |-> calls[t].attempt_number, k |-> calls[t].nmsg + 1])
            ELSE /\ calls'[t].out = calls[t].out
                 /\ calls'[t].nmsg \in {calls[t].nmsg, 0}

\* C33: BaseProvider.query delivers every message at the moment the raw
\* call yields it and takes none back when the attempt then fails with a
\* retryable error; the next attempt starts the raw call from its
\* beginning; so the stream of the caller is the concatenation, in the
\* order of the attempts, of what every attempt emitted.
C33_StreamKeepsFailedAttempts ==
    []StreamIsConcatenation /\ [][NothingHeldBackOrRetracted]_vars

\* the first attempt yielded one message and failed, the second yielded
\* two and ended well: the caller has the three
C33_Witness ==
    LET c == Frame("main")
    IN  /\ c.pc = "done" /\ c.status = "ok"
        /\ c.run = 1 /\ c.attempt_number = 2
        /\ c.runs[1].raising = 1
        /\ Len(c.out) = 3
        /\ c.out[1].attempt = 1 /\ c.out[1].k = 1
        /\ c.out[2].attempt = 2 /\ c.out[2].k = 1
        /\ c.out[3].attempt = 2 /\ c.out[3].k = 2

\* the messages query_with_rotation has yielded to its caller so far:
\* those of the providers that have failed and those of the call in progress
RotationStream == op.out \o calls["main"].out

\* the messages of the providers that have failed come from other
\* instances than those of the provider being tried, and there is one
\* outcome for every provider that has ended
RotationKeepsPartialOutput ==
    op.kind = "rotation" =>
        LET c == Frame("main") IN
        /\ \A i \in 1..Len(op.out) : \A r \in 1..Len(c.runs) :
               op.out[i].instance # c.runs[r].instance.id
        /\ \A k \in 1..Len(c.out) : \E r \in 1..Len(c.runs) :
               /\ c.out[k].instance = c.runs[r].instance.id
               /\ c.runs[r].instance.name = op.providers_to_try[op.idx]
        /\ Len(op.out) > 0 => \E i \in 1..Len(op.outcomes) : op.outcomes[i] = "error"

\* a message reaches the caller in the step in which the raw call of the
\* provider being tried yields it; no other step changes the stream: not
\* the failure of a provider, not the start of the next one, not the end
\* of the method
RotationStreamsAsItGoes ==
    (op.kind = "rotation" /\ op'.kind = "rotation") =>
        LET c == calls["main"]
            d == calls'["main"]
        IN  IF c.pc = "inflight" /\ d.pc = "inflight" /\ op'.idx = op.idx
               /\ d.run = c.run /\ d.attempt_number = c.attempt_number
               /\ d.nmsg = c.nmsg + 1
            THEN /\ RotationStream' =
                        Append(RotationStream,
                               [instance |-> c.provider_instance.id, run |-> c.run,
                                attempt |-> c.attempt_number, k |-> c.nmsg + 1])
                 /\ c.provider_instance.name = op.providers_to_try[op.idx]
            ELSE RotationStream' = RotationStream

C34_AllFailed ==
    /\ op.kind = "rotation" /\ op.status = "error"
    /\ op.outcomes = <<"error", "error", "error">>
    /\ Len(RotationStream) = 3

NoResponseText == <<"No response received from provider after successful query execution.">>

ProperPrefixes(list) == {SubSeq(list, 1, n) : n \in 1..(Len(list) - 1)}

\* the task of provider p ends in this step
TaskEnds(p) == op.kind = "all" /\ p \notin DOMAIN op.results /\ p \in DOMAIN op'.results

\* when the task of a provider ends, the list it returns is the whole
\* stream its path has passed on if the path ended well, and the empty
\* list if it failed, whatever the path had passed on before
TaskReturnsAllOrNothing ==
    \A p \in Provider :
        TaskEnds(p) =>
            LET emitted == Frame(p).out
                returned == op'.results[p].messages
            IN  /\ returned \in {<<>>, emitted}
                /\ returned \notin ProperPrefixes(emitted)
                /\ op'.results[p].status = "error" => returned = <<>>
                /\ op'.results[p].status = "ok" => (returned = emitted /\ emitted # <<>>)
                /\ op'.results[p].status \in {"ok", "error"}

\* the mapping query_all yields has these lists as its values
YieldedIsReturned ==
    (op.kind = "all" /\ op.yielded # <<>>) =>
        \A p \in DOMAIN op.yielded[1] :
            /\ op.yielded[1][p] = op.results[p].messages
            /\ op.results[p].status = "error" => op.yielded[1][p] = <<>>

\* C36: in query_all a provider that yields messages and then fails
\* contributes the empty list, not the messages it had produced: the value
\* of every provider in the result is the complete stream of a path that
\* ended well, or the empty list, never a proper prefix of the stream of
\* a path that failed.
C36_FailedTaskContributesNothing ==
    []YieldedIsReturned /\ [][TaskReturnsAllOrNothing]_vars

\* the raw call of claude has yielded a message and raised, the
\* installation failed: claude is mapped to the empty list, the others to
\* their messages
C36_Witness ==
    /\ op.kind = "all" /\ op.status = "ok"
    /\ op.results[CLAUDE].status = "error" /\ op.results[CLAUDE].hooks = 1
    /\ op.yielded[1][CLAUDE] = <<>>
    /\ Len(op.yielded[1][GEMINI]) = 1
    /\ Len(op.yielded[1][CODEX]) = 1

C38_RegistryChangesOnlyOnSuccess ==
    \A t \in TaskIds :
        LET c == Frame(t) IN
        Began(t) =>
            IF HookReported(t, TRUE)
            THEN /\ Len(c.runs) = 2
                 /\ c.runs[2].instance \notin RegistryInstances(c.registry0)
                 /\ providers = [c.registry0 EXCEPT ![c.provider] = c.runs[2].instance]
            ELSE /\ providers = c.registry0
                 /\ serial = c.serial0

\* the installation succeeded and the run on the new instance failed:
\* the call has ended with that error and the registry holds the new instance
C38_Witness ==
    LET c == Frame("main")
    IN  /\ c.pc = "done" /\ c.status = "error"
        /\ HookReported("main", TRUE)
        /\ c.runs[2].status = "error"
        /\ providers[c.provider] = c.runs[2].instance
        /\ providers[c.provider] # c.registry0[c.provider]

\* the four ways to end without a change of the registry
C38_UnknownProvider ==
    Done("main") /\ Frame("main").provider \notin DOMAIN Frame("main").registry0
C38_OtherError ==
    /\ Done("main") /\ Frame("main").status = "error" /\ Frame("main").hooks = 0
    /\ Frame("main").error.msg = <<"API error">>
C38_NoInstallFunction ==
    /\ Done("main") /\ Frame("main").lookup = "mock_none"
    /\ Frame("main").error.cause # <<>> /\ Frame("main").hooks = 0
C38_InstallFailed ==
    Done("main") /\ HookReported("main", FALSE)

\* the method the caller has called has come to its end
OpEnded ==
    \/ op.kind \in {"query", "random"} /\ calls["main"].pc = "done"
    \/ op.kind \in {"rotation", "all"} /\ op.status # "running"

\* query_with_rotation ends in one of two ways: after the provider that
\* ended well, or with the aggregate error after every provider of the
\* try order has been tried once and has failed
RotationEndsOneOfTwoWays ==
    op.kind = "rotation" =>
        /\ op.status \in {"running", "ok", "error"}
        /\ op.status = "ok" =>
               /\ op.outcomes # <<>> /\ op.outcomes[Len(op.outcomes)] = "ok"
               /\ \A i \in 1..(Len(op.outcomes) - 1) : op.outcomes[i] = "error"
               /\ Frame("main").status = "ok"
        /\ op.status = "error" =>
               /\ op.providers_tried = op.providers_to_try
               /\ Len(op.outcomes) = Len(op.providers_to_try)
               /\ \A i \in 1..Len(op.outcomes) : op.outcomes[i] = "error"
               /\ \A i, j \in 1..Len(op.providers_tried) :
                      i # j => op.providers_tried[i] # op.providers_tried[j]
               /\ op.error.type = "ProviderError" /\ op.error.provider = "all"
        /\ (\A i \in 1..Len(op.providers_to_try) :
               i <= Len(op.outcomes) /\ op.outcomes[i] = "error") => op.status = "error"

\* C39: when every raw call that is invoked ends, every call of query,
\* query_random, query_all and query_with_rotation comes to its end;
\* query_with_rotation ends either with the success of one provider or
\* with the aggregate error after every provider of the try order has
\* been tried once, never normally after all providers have failed.
C39_EveryCallTerminates ==
    /\ []RotationEndsOneOfTwoWays
    /\ (op.kind # "none") ~> OpEnded

\* the rotation has ended with the aggregate error after claude used both
\* its attempts and the two others failed too
C39_Witness ==
    /\ op.kind = "rotation" /\ op.status = "error"
    /\ op.providers_tried = <<CLAUDE, GEMINI, CODEX>>
    /\ Frame("main").options.retry_count = 2
    /\ Frame("main").attempt_number = 2
    /\ OpEnded
====
